---- MODULE Spec2Model ----
(***************************************************************************)
(* Model of the YouTube Playlist Backup extension core:                    *)
(*   - src/src/lib/sync-utils.js : isVideoUnavailable, mergeVideos,        *)
(*     countUnavailable (the reconciliation engine);                       *)
(*   - src/src/lib/youtube-api.js, lines 255-475 : the token manager       *)
(*     (authorization code + refresh token variant);                       *)
(*   - src/src/lib/youtube-api.js, lines 476-645 : the playlist fetcher;   *)
(*   - src/src/background/service-worker.js, lines 64-141, with            *)
(*     src/src/lib/storage.js : the sync orchestrator;                     *)
(*   - src/src/background/service-worker.js, lines 10-58 and 199-315 : the *)
(*     event listeners, setupSyncAlarm and handleMessage.                  *)
(*                                                                         *)
(* Several specifications share the module.  SpecMerge drives the pure     *)
(* merge functions over bounded inputs and SpecHistory adds the history of *)
(* the fetched lists to it; SpecToken drives the token manager one         *)
(* operation at a time and SpecRace lets signOut overlap a refresh;        *)
(* SpecFetch drives the paginated fetches over the token manager and the   *)
(* clock and SpecClassify one page of playlist items in all its shapes;    *)
(* SpecSync drives one sync of a playlist or one bulk cycle and            *)
(* SpecSyncLive adds its scheduling; SpecMessage drives the service worker *)
(* handling one message or one firing of the sync alarm; SpecAlarm drives  *)
(* the events that set the sync alarm up, one after the other; SpecOverlap *)
(* lets a toggleMonitor message overlap a bulk cycle.  Each specification  *)
(* leaves the variables it does not use untouched.                         *)
(*                                                                         *)
(* JavaScript values: a missing object key and the value undefined are     *)
(* both written Undef for string fields; for the numeric fields and the    *)
(* tokens (numbered in the order the server issues them) the falsy value 0 *)
(* stands for a missing key, since the code only ever tests those fields   *)
(* for truthiness.                                                         *)
(***************************************************************************)
EXTENDS Integers, Sequences, FiniteSets, TLC

VARIABLES
    \* ---- reconciliation engine (sync-utils.js) ----
    previous,          \* existingVideos: the list persisted by the last sync
    fresh,             \* newVideos: the list just fetched
    merged,            \* the list mergeVideos returned
    unavailableCount,  \* countUnavailable(merged), as syncPlaylist reports it
    nMerges,           \* merges applied so far in this run
    lastAvailable,     \* history: per videoId, the title the video had in the
                       \* latest fetched list in which it was available
    \* ---- token manager (youtube-api.js) ----
    store,             \* chrome.storage.local: accessToken, refreshToken, tokenExpiry
    now,               \* Date.now()
    auth,              \* the getAuthToken call in progress or last finished
    so,                \* the signOut call in progress or last finished
    server,            \* the authorization server: tokens issued, requests seen,
                       \* lifetime and instant of the last grant
    authStatus,        \* what isAuthenticated() last returned
    \* ---- playlist fetcher (youtube-api.js) and orchestrator (service-worker.js) ----
    api,               \* the apiRequest call in progress or last finished
    wire,              \* the requests sent to the Data API by the running operation
    walk,              \* the fetchAll* call in progress or last finished
    job,               \* the syncPlaylist / syncAllPlaylists call in progress
    playlists,         \* chrome.storage.local: the playlists map
    \* ---- event handlers of the service worker (service-worker.js) ----
    msg,               \* the handleMessage call in progress or last finished
    setup,             \* the setupSyncAlarm call in progress or last finished
    settings,          \* chrome.storage.local: the settings object
    alarms,            \* chrome.alarms: the alarms that exist
    saving             \* the storage.savePlaylist calls in progress, one per caller

mergeVars == <<previous, fresh, merged, unavailableCount, nMerges, lastAvailable>>
tokenVars == <<store, now, auth, so, server, authStatus>>
syncVars == <<api, wire, walk, job, playlists>>
workerVars == <<msg, setup, settings, alarms, saving>>
vars == <<previous, fresh, merged, unavailableCount, nMerges, lastAvailable,
          store, now, auth, so, server, authStatus,
          api, wire, walk, job, playlists,
          msg, setup, settings, alarms, saving>>

-----------------------------------------------------------------------------
(* Bounds of the model. *)

MaxLen == 2        \* longest previous / fresh list with several video ids
MaxMerges == 3     \* merges chained in one run
MaxTicks == 3      \* clock ticks in one run of the token manager
MaxIssued == 3     \* access tokens the authorization server issues in one run
MaxPages == 2      \* pages the Data API serves for one list

-----------------------------------------------------------------------------
(* JavaScript values. *)

Undef == "<undefined>"

\* Truthiness of a string-valued field: undefined and '' are falsy.
Truthy(x) == x # Undef /\ x # ""

-----------------------------------------------------------------------------
(* sync-utils.js *)

isVideoUnavailable_flagOnly(video) == video.isUnavailable

isVideoUnavailable_noPrivate(video) ==
    video.isUnavailable \/ video.title = "Deleted video"

isVideoUnavailable(video) ==
    video.isUnavailable \/ video.title = "Deleted video" \/ video.title = "Private video"

\* for (const v of existingVideos) existingVideosMap[v.videoId] = v;
\* a later record with the same videoId overwrites an earlier one.
existingVideosMap(existingVideos) ==
    [id \in {existingVideos[i].videoId : i \in DOMAIN existingVideos} |->
        existingVideos[CHOOSE i \in DOMAIN existingVideos :
            /\ existingVideos[i].videoId = id
            /\ \A j \in DOMAIN existingVideos :
                   existingVideos[j].videoId = id => j <= i]]

\* The three ways a bug could change the callback of newVideos.map.
mergeVideo_keepAlways(v, map) ==
    LET has == v.videoId \in DOMAIN map
        existing == map[v.videoId]
    IN  IF has /\ ~isVideoUnavailable(existing)
        THEN [v EXCEPT !.originalTitle = existing.title,
                       !.originalChannelTitle = existing.channelTitle,
                       !.originalThumbnailUrl = existing.thumbnailUrl]
        ELSE IF has /\ Truthy(existing.originalTitle)
        THEN [v EXCEPT !.originalTitle = existing.originalTitle,
                       !.originalChannelTitle = existing.originalChannelTitle,
                       !.originalThumbnailUrl = existing.originalThumbnailUrl]
        ELSE v

mergeVideo_swapped(v, map) ==
    LET isUnavailable == isVideoUnavailable(v)
        has == v.videoId \in DOMAIN map
        existing == map[v.videoId]
    IN  IF isUnavailable /\ has /\ ~isVideoUnavailable(existing)
        THEN [v EXCEPT !.originalTitle = existing.title,
                       !.originalChannelTitle = existing.thumbnailUrl,
                       !.originalThumbnailUrl = existing.channelTitle]
        ELSE IF isUnavailable /\ has /\ Truthy(existing.originalTitle)
        THEN [v EXCEPT !.originalTitle = existing.originalTitle,
                       !.originalChannelTitle = existing.originalChannelTitle,
                       !.originalThumbnailUrl = existing.originalThumbnailUrl]
        ELSE v

mergeVideo_rederive(v, map) ==
    LET isUnavailable == isVideoUnavailable(v)
        has == v.videoId \in DOMAIN map
        existing == map[v.videoId]
    IN  IF isUnavailable /\ has
        THEN [v EXCEPT !.originalTitle = existing.title,
                       !.originalChannelTitle = existing.channelTitle,
                       !.originalThumbnailUrl = existing.thumbnailUrl]
        ELSE v

mergeVideo_carriesWhenAvailable(v, map) ==
    LET isUnavailable == isVideoUnavailable(v)
        has == v.videoId \in DOMAIN map
        existing == map[v.videoId]
    IN  IF isUnavailable /\ has /\ ~isVideoUnavailable(existing)
        THEN [v EXCEPT !.originalTitle = existing.title,
                       !.originalChannelTitle = existing.channelTitle,
                       !.originalThumbnailUrl = existing.thumbnailUrl]
        ELSE IF has /\ Truthy(existing.originalTitle)
        THEN [v EXCEPT !.originalTitle = existing.originalTitle,
                       !.originalChannelTitle = existing.originalChannelTitle,
                       !.originalThumbnailUrl = existing.originalThumbnailUrl]
        ELSE v

mergeVideo_ownTitle(v, map) ==
    LET isUnavailable == isVideoUnavailable(v)
        has == v.videoId \in DOMAIN map
        existing == map[v.videoId]
    IN  IF isUnavailable /\ has /\ ~isVideoUnavailable(existing)
        THEN [v EXCEPT !.originalTitle = v.title,
                       !.originalChannelTitle = existing.channelTitle,
                       !.originalThumbnailUrl = existing.thumbnailUrl]
        ELSE IF isUnavailable /\ has /\ Truthy(existing.originalTitle)
        THEN [v EXCEPT !.originalTitle = existing.originalTitle,
                       !.originalChannelTitle = existing.originalChannelTitle,
                       !.originalThumbnailUrl = existing.originalThumbnailUrl]
        ELSE v

\* The callback of newVideos.map: one fetched record v against the map.
mergeVideo(v, map) ==
    LET isUnavailable == isVideoUnavailable(v)
        has == v.videoId \in DOMAIN map      \* existing is not undefined
        existing == map[v.videoId]
    IN  \* If video became unavailable but we have old metadata, preserve it
        IF isUnavailable /\ has /\ ~isVideoUnavailable(existing)
        THEN [v EXCEPT !.originalTitle = existing.title,
                       !.originalChannelTitle = existing.channelTitle,
                       !.originalThumbnailUrl = existing.thumbnailUrl]
        \* If video was already unavailable with preserved metadata, keep it
        \* (existing?.originalTitle is a truthiness test)
        ELSE IF isUnavailable /\ has /\ Truthy(existing.originalTitle)
        THEN [v EXCEPT !.originalTitle = existing.originalTitle,
                       !.originalChannelTitle = existing.originalChannelTitle,
                       !.originalThumbnailUrl = existing.originalThumbnailUrl]
        ELSE v

mergeVideos_knownOnly(existingVideos, newVideos) ==
    LET map == existingVideosMap(existingVideos)
        kept == SelectSeq(newVideos, LAMBDA v : v.videoId \in DOMAIN map)
    IN  [i \in 1..Len(kept) |-> mergeVideo(kept[i], map)]

mergeVideos_keepsDropped(existingVideos, newVideos) ==
    LET map == existingVideosMap(existingVideos)
        listed == {newVideos[i].videoId : i \in DOMAIN newVideos}
    IN  [i \in 1..Len(newVideos) |-> mergeVideo(newVideos[i], map)]
            \o SelectSeq(existingVideos, LAMBDA v : v.videoId \notin listed)

mergeVideos(existingVideos, newVideos) ==
    LET map == existingVideosMap(existingVideos)
    IN  [i \in 1..Len(newVideos) |-> mergeVideo(newVideos[i], map)]

countUnavailable_flagOnly(videos) ==
    Len(SelectSeq(videos, isVideoUnavailable_flagOnly))

countUnavailable(videos) == Len(SelectSeq(videos, isVideoUnavailable))

-----------------------------------------------------------------------------
(* youtube-api.js, token manager *)

ExpiryBuffer == 60000      \* ms; "1 min buffer" of storeTokens

\* Date.now() when the run starts, and the step of the clock.
StartTime == 10 * ExpiryBuffer
TickMs == ExpiryBuffer \div 2

\* expires_in of a token response, in seconds; 0: the field is missing.
ExpiresInValues == {0, 30, 90, 3600}

\* chrome.storage.local with none of the three credential keys.
EmptyStore == [accessToken |-> 0, refreshToken |-> 0, tokenExpiry |-> 0]

\* getStoredTokens: the three credential keys as they are in the store.
getStoredTokens(st) ==
    [accessToken |-> st.accessToken, refreshToken |-> st.refreshToken,
     tokenExpiry |-> st.tokenExpiry]

storeTokens_assumedLifetime(st, accessToken, refreshToken, expiresIn, t) ==
    [accessToken |-> accessToken,
     refreshToken |-> IF refreshToken # 0 THEN refreshToken ELSE st.refreshToken,
     tokenExpiry |-> IF expiresIn # 0
                     THEN t + (expiresIn * 1000) - ExpiryBuffer
                     ELSE t + ExpiryBuffer]

storeTokens_overwriteRefresh(st, accessToken, refreshToken, expiresIn, t) ==
    [accessToken |-> accessToken,
     refreshToken |-> refreshToken,
     tokenExpiry |-> IF expiresIn # 0
                     THEN t + (expiresIn * 1000) - ExpiryBuffer
                     ELSE st.tokenExpiry]

\* storeTokens: chrome.storage.local.set of the keys put in data; t is Date.now().
storeTokens(st, accessToken, refreshToken, expiresIn, t) ==
    [accessToken |-> accessToken,
     refreshToken |-> IF refreshToken # 0 THEN refreshToken ELSE st.refreshToken,
     tokenExpiry |-> IF expiresIn # 0
                     THEN t + (expiresIn * 1000) - ExpiryBuffer
                     ELSE st.tokenExpiry]

clearTokens_keepRefresh(st) == [st EXCEPT !.accessToken = 0, !.tokenExpiry = 0]

\* clearTokens: chrome.storage.local.remove of the three keys.
clearTokens(st) == EmptyStore

TokenValid_marginAtRead(stored, t) ==
    stored.accessToken # 0 /\ stored.tokenExpiry # 0
        /\ t + ExpiryBuffer < stored.tokenExpiry

\* stored.accessToken && stored.tokenExpiry && Date.now() < stored.tokenExpiry
TokenValid(stored, t) ==
    stored.accessToken # 0 /\ stored.tokenExpiry # 0 /\ t < stored.tokenExpiry

\* A getAuthToken call: where it is suspended, what it read, sent and returned.
AuthIdle ==
    [pc |-> "idle", interactive |-> FALSE, stored |-> EmptyStore, startedAt |-> 0,
     requests |-> <<>>, result |-> 0, error |-> "none"]

SignOutIdle == [pc |-> "idle", requests |-> <<>>, error |-> "none"]

AuthResting == auth.pc \in {"idle", "done"}
SignOutResting == so.pc \in {"idle", "done"}

AuthReturn(token) == [auth EXCEPT !.pc = "done", !.result = token]

AuthThrow_noValidToken(message) ==
    [auth EXCEPT !.pc = "done", !.error = "No valid token"]

AuthThrow(message) == [auth EXCEPT !.pc = "done", !.error = message]

GetAuthToken_promptsAnyway(interactive) ==
    /\ AuthResting
    /\ LET stored == getStoredTokens(store)
           call == [AuthIdle EXCEPT !.interactive = interactive,
                                    !.stored = stored, !.startedAt = now]
       IN  auth' =
             IF TokenValid(stored, now)
             THEN [call EXCEPT !.pc = "done", !.result = stored.accessToken]
             ELSE IF stored.refreshToken # 0
             THEN [call EXCEPT !.pc = "awaitRefresh", !.requests = <<"refresh">>]
             ELSE [call EXCEPT !.pc = "awaitAuthFlow"]
    /\ UNCHANGED <<store, now, so, server, authStatus>>
    /\ UNCHANGED mergeVars

\* getAuthToken(interactive), lines 350-386: read the store, return the cached
\* token, or start the refresh exchange, or fail, or open the interactive flow.
GetAuthToken(interactive) ==
    /\ AuthResting
    /\ LET stored == getStoredTokens(store)
           call == [AuthIdle EXCEPT !.interactive = interactive,
                                    !.stored = stored, !.startedAt = now]
       IN  auth' =
             IF TokenValid(stored, now)
             THEN [call EXCEPT !.pc = "done", !.result = stored.accessToken]
             ELSE IF stored.refreshToken # 0
             THEN [call EXCEPT !.pc = "awaitRefresh", !.requests = <<"refresh">>]
             ELSE IF ~interactive
             THEN [call EXCEPT !.pc = "done", !.error = "No valid token"]
             ELSE [call EXCEPT !.pc = "awaitAuthFlow"]
    /\ UNCHANGED <<store, now, so, server, authStatus>>
    /\ UNCHANGED mergeVars

\* refreshAccessToken, lines 338-344, and the catch of getAuthToken, lines
\* 362-367: the token endpoint answered the refresh request.
\* ok = FALSE: response.ok is false or fetch rejected.
RefreshResponse(ok, rotated, expiresIn) ==
    /\ auth.pc = "awaitRefresh"
    /\ IF ok
       THEN /\ server.issued < MaxIssued
            /\ LET accessToken == server.issued + 1
                   refreshToken == IF rotated THEN server.refreshIssued + 1 ELSE 0
               IN  /\ server' = [issued |-> accessToken,
                                 refreshIssued |-> IF rotated THEN refreshToken
                                                   ELSE server.refreshIssued,
                                 refreshes |-> server.refreshes + 1,
                                 expiresIn |-> expiresIn,
                                 grantedAt |-> now]
                   /\ store' = storeTokens(store, accessToken, 0, expiresIn, now)
                   /\ auth' = AuthReturn(accessToken)
       ELSE /\ ~rotated /\ expiresIn = 0
            /\ auth' = IF ~auth.interactive
                       THEN AuthThrow("Token expired and refresh failed")
                       ELSE [auth EXCEPT !.pc = "awaitAuthFlow"]
            /\ UNCHANGED <<store, server>>
    /\ UNCHANGED <<now, so, authStatus>>
    /\ UNCHANGED <<mergeVars, syncVars, workerVars>>

\* The callback of launchWebAuthFlow, lines 391-424, up to the code exchange.
AuthFlowCallback(outcome) ==
    /\ auth.pc = "awaitAuthFlow"
    /\ auth' =
         CASE outcome = "lastError" -> AuthThrow("The user did not approve access.")
           [] outcome = "noRedirect" -> AuthThrow("No redirect URL received")
           [] outcome = "noCode" -> AuthThrow("No authorization code received")
           [] outcome = "code" ->
                 [auth EXCEPT !.pc = "awaitExchange",
                              !.requests = Append(auth.requests, "exchange")]
    /\ UNCHANGED <<store, now, so, server, authStatus>>
    /\ UNCHANGED <<mergeVars, syncVars, workerVars>>

ExchangeResponse_clearsOnFailure(outcome, withRefresh, expiresIn) ==
    /\ auth.pc = "awaitExchange"
    /\ IF outcome = "ok"
       THEN /\ server.issued < MaxIssued
            /\ LET accessToken == server.issued + 1
                   refreshToken == IF withRefresh THEN server.refreshIssued + 1 ELSE 0
               IN  /\ server' = [server EXCEPT
                                   !.issued = accessToken,
                                   !.expiresIn = expiresIn,
                                   !.grantedAt = now,
                                   !.refreshIssued = IF withRefresh THEN refreshToken
                                                     ELSE server.refreshIssued]
                   /\ store' = storeTokens(store, accessToken, refreshToken,
                                           expiresIn, now)
                   /\ auth' = AuthReturn(accessToken)
       ELSE /\ ~withRefresh /\ expiresIn = 0
            /\ auth' = IF outcome = "notOk"
                       THEN AuthThrow("Token exchange failed")
                       ELSE AuthThrow("Failed to fetch")
            /\ store' = clearTokens(store)
            /\ UNCHANGED server
    /\ UNCHANGED <<now, so, authStatus>>
    /\ UNCHANGED <<mergeVars, syncVars, workerVars>>

\* The callback of launchWebAuthFlow, lines 426-437: the token endpoint
\* answered the code exchange.  outcome: "ok", "notOk" (response.ok false),
\* "rejected" (fetch rejected).
ExchangeResponse(outcome, withRefresh, expiresIn) ==
    /\ auth.pc = "awaitExchange"
    /\ IF outcome = "ok"
       THEN /\ server.issued < MaxIssued
            /\ LET accessToken == server.issued + 1
                   refreshToken == IF withRefresh THEN server.refreshIssued + 1 ELSE 0
               IN  /\ server' = [server EXCEPT
                                   !.issued = accessToken,
                                   !.expiresIn = expiresIn,
                                   !.grantedAt = now,
                                   !.refreshIssued = IF withRefresh THEN refreshToken
                                                     ELSE server.refreshIssued]
                   /\ store' = storeTokens(store, accessToken, refreshToken,
                                           expiresIn, now)
                   /\ auth' = AuthReturn(accessToken)
       ELSE /\ ~withRefresh /\ expiresIn = 0
            /\ auth' = IF outcome = "notOk"
                       THEN AuthThrow("Token exchange failed")
                       ELSE AuthThrow("Failed to fetch")
            /\ UNCHANGED <<store, server>>
    /\ UNCHANGED <<now, so, authStatus>>
    /\ UNCHANGED <<mergeVars, syncVars, workerVars>>

IsAuthenticated_byAccessToken ==
    /\ authStatus' = (getStoredTokens(store).accessToken # 0)
    /\ UNCHANGED <<store, now, auth, so, server>>
    /\ UNCHANGED <<mergeVars, syncVars, workerVars>>

\* isAuthenticated, lines 446-453.
IsAuthenticated ==
    /\ authStatus' = (getStoredTokens(store).refreshToken # 0)
    /\ UNCHANGED <<store, now, auth, so, server>>
    /\ UNCHANGED <<mergeVars, syncVars, workerVars>>

\* signOut, lines 465-469: read the store; with an access token send the
\* revocation request, without one clear the store at once (line 474).
SignOut ==
    /\ SignOutResting
    /\ IF getStoredTokens(store).accessToken # 0
       THEN /\ so' = [pc |-> "awaitRevoke", requests |-> <<"revoke">>,
                       error |-> "none"]
            /\ UNCHANGED store
       ELSE /\ so' = [pc |-> "done", requests |-> <<>>, error |-> "none"]
            /\ store' = clearTokens(store)
    /\ UNCHANGED <<now, auth, server, authStatus>>
    /\ UNCHANGED <<mergeVars, syncVars>>

RevokeResponse_surfaces(ok) ==
    /\ so.pc = "awaitRevoke"
    /\ IF ok
       THEN so' = [so EXCEPT !.pc = "done"] /\ store' = clearTokens(store)
       ELSE so' = [so EXCEPT !.pc = "done", !.error = "Failed to fetch"]
            /\ UNCHANGED store
    /\ UNCHANGED <<now, auth, server, authStatus>>
    /\ UNCHANGED <<mergeVars, syncVars, workerVars>>

\* signOut, lines 469-474: the revocation request was answered or rejected
\* (a rejection is caught and ignored); the store is cleared.
RevokeResponse(ok) ==
    /\ so.pc = "awaitRevoke"
    /\ so' = [so EXCEPT !.pc = "done"]
    /\ store' = clearTokens(store)
    /\ UNCHANGED <<now, auth, server, authStatus>>
    /\ UNCHANGED <<mergeVars, syncVars, workerVars>>

\* Time passes.
Tick ==
    /\ now < StartTime + MaxTicks * TickMs
    /\ now' = now + TickMs
    /\ UNCHANGED <<store, auth, so, server, authStatus>>
    /\ UNCHANGED <<mergeVars, syncVars, workerVars>>

-----------------------------------------------------------------------------
(* The calls of the playlist fetcher and of the orchestrator, at rest. *)

PlaylistIds == {"P1", "P2"}

\* The body of a response of the Data API; nextPageToken 0: the key is missing.
NoBody == [items |-> <<>>, nextPageToken |-> 0]

\* An apiRequest call: where it is suspended, its parameters, what it
\* returned (body) or threw (error).
ApiIdle ==
    [pc |-> "idle", endpoint |-> "none", id |-> "none", pageToken |-> 0,
     body |-> NoBody, error |-> "none"]

\* A fetchAllUserPlaylists / fetchAllPlaylistItems call: the pageToken and the
\* array it has built so far, what it returned (result) or threw (error).
WalkIdle ==
    [pc |-> "idle", kind |-> "none", playlistId |-> "none", pageToken |-> 0,
     out |-> <<>>, result |-> <<>>, error |-> "none"]

\* playlists[playlistId] of a playlist the store does not hold.
NoPlaylist ==
    [playlistId |-> Undef, title |-> Undef, itemCount |-> 0, monitored |-> FALSE,
     videos |-> <<>>, lastSyncedAt |-> 0]

\* The results object of syncAllPlaylists, lines 65-69.
NoResults == [synced |-> 0, unavailable |-> 0, errors |-> <<>>]

\* A syncPlaylist call, alone or inside syncAllPlaylists: the locals of both
\* functions.  monitored is the array getMonitoredPlaylists returned, queue the
\* part of it the loop has not reached, attempted the playlists syncPlaylist
\* was called for; outcome is what the last syncPlaylist returned or threw.
JobIdle ==
    [op |-> "none", pc |-> "idle", playlistId |-> "none", playlist |-> NoPlaylist,
     metadata |-> NoPlaylist, monitored |-> <<>>, queue |-> <<>>,
     attempted |-> <<>>, signedIn |-> FALSE, results |-> NoResults,
     outcome |-> [unavailableCount |-> 0, videoCount |-> 0, error |-> "none"]]

ApiResting == api.pc \in {"idle", "done"}
WalkResting == walk.pc \in {"idle", "done"}
JobResting == job.pc \in {"idle", "done"}

SyncIdle ==
    /\ api = ApiIdle
    /\ wire = <<>>
    /\ walk = WalkIdle
    /\ job = JobIdle
    /\ playlists = [id \in PlaylistIds |-> NoPlaylist]

\* A handleMessage call: the message, where the handler is suspended, what it
\* resolved to (response) or whether it rejected.
NoResponse == [pending |-> TRUE]

MsgIdle ==
    [pc |-> "idle", action |-> "none", playlistId |-> "none",
     response |-> NoResponse, rejected |-> FALSE]

\* A setupSyncAlarm call: where it is suspended, who called it, its
\* periodInMinutes.
SetupIdle == [pc |-> "idle", caller |-> "none", periodInMinutes |-> 0]

\* chrome.storage.local without the settings key.
NoSettings == [syncFrequency |-> Undef]

\* A storage.savePlaylist call: where it is suspended, the playlist it was
\* given and the playlists map its getPlaylists read.
SaveIdle ==
    [pc |-> "idle", playlist |-> NoPlaylist,
     map |-> [id \in PlaylistIds |-> NoPlaylist]]

\* The callers of savePlaylist: syncPlaylist and the toggleMonitor case.
NoSaves == [caller \in {"sync", "message"} |-> SaveIdle]

WorkerIdle ==
    /\ msg = MsgIdle
    /\ setup = SetupIdle
    /\ settings = NoSettings
    /\ alarms = <<>>
    /\ saving = NoSaves

-----------------------------------------------------------------------------
(* Inputs of the reconciliation engine. *)

VideoIds == {"a", "b"}

\* A record as fetchAllPlaylistItems builds it (position is set from the
\* place in the list, see Positioned); the original* keys are absent.
Fetched(id, t, c, u, f) ==
    [videoId |-> id, title |-> t, channelTitle |-> c, thumbnailUrl |-> u,
     isUnavailable |-> f, position |-> 0,
     originalTitle |-> Undef, originalChannelTitle |-> Undef,
     originalThumbnailUrl |-> Undef]

Stored(id, t, c, u, f, ot, oc, ou) ==
    [Fetched(id, t, c, u, f) EXCEPT !.originalTitle = ot,
                                    !.originalChannelTitle = oc,
                                    !.originalThumbnailUrl = ou]

TitleValues == {"", "Cat Video", "Deleted video", "Private video"}

\* channelTitle and thumbnailUrl of a record: both served, or both empty.
OwnerValues == {<<"X", "u">>, <<"", "">>}

\* Every fetched record of one video over the field values above.
FetchedWide ==
    {Fetched("a", t, o[1], o[2], f) :
        t \in TitleValues, o \in OwnerValues, f \in BOOLEAN}

\* Every stored record of that video: a fetched record, with or without
\* preserved originals.
StoredWide ==
    {Stored(r.videoId, r.title, r.channelTitle, r.thumbnailUrl, r.isUnavailable,
            ot, oo[1], oo[2]) :
        r \in FetchedWide, ot \in {Undef, "", "Cat Video"},
        oo \in {<<Undef, Undef>>, <<"X", "u">>}}

\* What one video looks like in the lists with several ids: the record minus
\* its id.  Two entries of one list with the same videoId are the same video
\* and carry the same content.
FetchedContents ==
    {Fetched("a", "Cat Video", "X", "u", FALSE),
     Fetched("a", "Deleted video", "", "", TRUE)}

StoredContents ==
    FetchedContents \cup
    {Stored("a", "Deleted video", "", "", TRUE, "Cat Video", "X", "u")}

\* snippet.position: the ordinal of the item in the list.
Positioned(s) == [i \in 1..Len(s) |-> [s[i] EXCEPT !.position = i - 1]]

ListsOver(contents, maxLen) ==
    {Positioned([i \in 1..n |-> [cm[ids[i]] EXCEPT !.videoId = ids[i]]]) :
        <<n, cm, ids>> \in
            UNION {{<<n, cm, ids>> : cm \in [VideoIds -> contents],
                                     ids \in [1..n -> VideoIds]} : n \in 0..maxLen}}

FreshLists == {<<v>> : v \in FetchedWide} \cup ListsOver(FetchedContents, MaxLen)
PreviousLists == {<<v>> : v \in StoredWide} \cup ListsOver(StoredContents, MaxLen)

-----------------------------------------------------------------------------
(* SpecMerge: the reconciliation engine applied to bounded inputs. *)

TokenIdle ==
    /\ store = EmptyStore
    /\ now = StartTime
    /\ auth = AuthIdle
    /\ so = SignOutIdle
    /\ server = [issued |-> 0, refreshIssued |-> 0, refreshes |-> 0, expiresIn |-> 0,
                 grantedAt |-> 0]
    /\ authStatus = FALSE

\* No fetched list is on record.
NoHistory == [id \in VideoIds |-> Undef]

InitMerge ==
    /\ previous \in PreviousLists
    /\ fresh = <<>>
    /\ merged = <<>>
    /\ unavailableCount = 0
    /\ nMerges = 0
    /\ lastAvailable = NoHistory
    /\ TokenIdle
    /\ SyncIdle
    /\ WorkerIdle

\* syncPlaylist, lines 132-138, on the stored list: merge and count.  The
\* history is left to the specification.
Merge(F) ==
    /\ nMerges = 0
    /\ fresh' = F
    /\ merged' = mergeVideos(previous, F)
    /\ unavailableCount' = countUnavailable(merged')
    /\ nMerges' = 1
    /\ UNCHANGED previous
    /\ UNCHANGED <<tokenVars, syncVars, workerVars>>

\* The next sync: the list saved by the last one is the previous list.
Resync(F) ==
    /\ nMerges >= 1
    /\ nMerges < MaxMerges
    /\ previous' = merged
    /\ fresh' = F
    /\ merged' = mergeVideos(merged, F)
    /\ unavailableCount' = countUnavailable(merged')
    /\ nMerges' = nMerges + 1
    /\ UNCHANGED <<tokenVars, syncVars, workerVars>>

NextMerge ==
    \/ \E F \in FreshLists : Merge(F) /\ UNCHANGED lastAvailable
    \/ \E F \in FreshLists : Resync(F) /\ UNCHANGED lastAvailable

SpecMerge == InitMerge /\ [][NextMerge]_vars

-----------------------------------------------------------------------------
(* SpecToken: the token manager, one operation at a time.  The store starts *)
(* empty, as on a fresh install.                                            *)

MergeIdle ==
    /\ previous = <<>>
    /\ fresh = <<>>
    /\ merged = <<>>
    /\ unavailableCount = 0
    /\ nMerges = 0
    /\ lastAvailable = NoHistory

InitToken == TokenIdle /\ MergeIdle /\ SyncIdle /\ WorkerIdle

NextToken ==
    \/ \E interactive \in BOOLEAN :
           SignOutResting /\ GetAuthToken(interactive)
               /\ UNCHANGED <<syncVars, workerVars>>
    \/ \E ok \in BOOLEAN, rotated \in BOOLEAN, expiresIn \in ExpiresInValues :
           RefreshResponse(ok, rotated, expiresIn)
    \/ \E outcome \in {"lastError", "noRedirect", "noCode", "code"} :
           AuthFlowCallback(outcome)
    \/ \E outcome \in {"ok", "notOk", "rejected"}, withRefresh \in BOOLEAN,
          expiresIn \in ExpiresInValues :
           ExchangeResponse(outcome, withRefresh, expiresIn)
    \/ AuthResting /\ SignOutResting /\ IsAuthenticated
    \/ AuthResting /\ SignOut /\ UNCHANGED workerVars
    \/ \E ok \in BOOLEAN : RevokeResponse(ok)
    \/ Tick

SpecToken == InitToken /\ [][NextToken]_vars

-----------------------------------------------------------------------------
(* youtube-api.js, playlist fetcher *)

SessionExpired == "Session expired. Please sign in again."

\* HTTP status of a response; Rejected: fetch threw, Pending: not answered yet.
Rejected == 0
Pending == -1

\* snippet of a playlist item.  thumbnails names the keys the object has:
\* "none" (no object), "empty" (no key), "default", "medium" (both keys).
Snippet(id, t, owner, thumbs) ==
    [videoId |-> id, title |-> t, videoOwnerChannelTitle |-> owner,
     thumbnails |-> thumbs, position |-> 0]

\* snippet.thumbnails?.medium?.url || snippet.thumbnails?.default?.url || ''
thumbnailUrlOf(thumbs) ==
    CASE thumbs = "medium" -> "u"
      [] thumbs = "default" -> "d"
      [] OTHER -> ""

toVideo_titleOnly(snippet) ==
    LET title == IF Truthy(snippet.title) THEN snippet.title ELSE ""
        isUnavailable == title = "Deleted video" \/ title = "Private video"
    IN  [Fetched(snippet.videoId, title,
                 IF Truthy(snippet.videoOwnerChannelTitle)
                 THEN snippet.videoOwnerChannelTitle ELSE "",
                 thumbnailUrlOf(snippet.thumbnails), isUnavailable)
            EXCEPT !.position = snippet.position]

\* The record fetchAllPlaylistItems pushes for one item, lines 588-610.
toVideo(snippet) ==
    LET title == IF Truthy(snippet.title) THEN snippet.title ELSE ""
        isUnavailable ==
            \/ title = "Deleted video"
            \/ title = "Private video"
            \/ ~Truthy(snippet.videoOwnerChannelTitle)
            \/ snippet.thumbnails = "none"
    IN  [Fetched(snippet.videoId, title,
                 IF Truthy(snippet.videoOwnerChannelTitle)
                 THEN snippet.videoOwnerChannelTitle ELSE "",
                 thumbnailUrlOf(snippet.thumbnails), isUnavailable)
            EXCEPT !.position = snippet.position]

\* The record fetchAllUserPlaylists and fetchPlaylistMetadata build for one
\* playlist resource.
toPlaylist(item) ==
    [playlistId |-> item.id, title |-> item.title, itemCount |-> item.itemCount]

\* for (const item of response.items || []) { videos.push({...}) }
pushItems(kind, out, items) ==
    out \o [i \in 1..Len(items) |->
              IF kind = "playlistItems" THEN toVideo(items[i]) ELSE toPlaylist(items[i])]

continuationOf_firstPageOnly(body) == 0

\* pageToken = response.nextPageToken
continuationOf(body) == body.nextPageToken

apiErrorMessage_statusOnly(response) ==
    "API request failed: " \o ToString(response.status)

\* error.error?.message || `API request failed: ${response.status}`
apiErrorMessage(response) ==
    IF Truthy(response.message) THEN response.message
    ELSE "API request failed: " \o ToString(response.status)

\* What the Data API may hold: the items of a playlist, the playlists of the user.
SnippetItems ==
    {Snippet("a", "Cat Video", "X", "medium"),
     Snippet("b", "Deleted video", Undef, "none")}

PlaylistResource(id) == [id |-> id, title |-> "Mix", itemCount |-> 1]

\* The items of one page answering the request in flight.
ApiPages ==
    {<<>>} \cup
    IF api.endpoint = "/playlistItems"
    THEN {<<[x EXCEPT !.position = Len(walk.out)]>> : x \in SnippetItems}
    ELSE IF api.id = "none"
    THEN {<<PlaylistResource(id)>> : id \in PlaylistIds}
    ELSE {<<PlaylistResource(api.id)>>}

\* The continuation tokens the page in flight may carry: none, or, while the
\* list has pages left, the number of the next page.
ApiContinuations ==
    {0} \cup IF walk.pc = "running" /\ Len(wire) < MaxPages THEN {Len(wire)} ELSE {}

\* The answers to the request in flight.
ApiResponses ==
    {[status |-> 200, message |-> Undef, items |-> items, nextPageToken |-> next] :
        items \in ApiPages, next \in ApiContinuations}
    \cup {[status |-> st[1], message |-> st[2], items |-> <<>>, nextPageToken |-> 0] :
            st \in {<<401, "Invalid Credentials">>, <<403, "quotaExceeded">>,
                    <<500, Undef>>, <<Rejected, Undef>>}}

\* apiRequest, line 484: the call of getAuthToken(false).
ApiRequest(endpoint, id, pageToken) ==
    /\ GetAuthToken(FALSE)
    /\ api' = [ApiIdle EXCEPT !.pc = "awaitToken", !.endpoint = endpoint,
                              !.id = id, !.pageToken = pageToken]

\* apiRequest, lines 484-502: getAuthToken returned or threw; with a token the
\* request is sent.
ApiSend ==
    /\ api.pc = "awaitToken"
    /\ auth.pc = "done"
    /\ IF auth.error # "none"
       THEN /\ api' = [api EXCEPT !.pc = "done", !.error = auth.error]
            /\ UNCHANGED wire
       ELSE IF auth.result = 0
       THEN /\ api' = [api EXCEPT !.pc = "done",
                                  !.error = "Not authenticated. Please sign in."]
            /\ UNCHANGED wire
       ELSE /\ api' = [api EXCEPT !.pc = "awaitResponse"]
            /\ wire' = Append(wire, [endpoint |-> api.endpoint, id |-> api.id,
                                     pageToken |-> api.pageToken,
                                     token |-> auth.result, status |-> Pending,
                                     message |-> Undef,
                                     items |-> <<>>, nextPageToken |-> 0])
    /\ UNCHANGED <<walk, job, playlists>>
    /\ UNCHANGED <<tokenVars, mergeVars, workerVars>>

ApiResponse_keepsCredential(response) ==
    /\ api.pc = "awaitResponse"
    /\ response \in ApiResponses
    /\ wire' = [wire EXCEPT ![Len(wire)].status = response.status,
                            ![Len(wire)].message = response.message,
                            ![Len(wire)].items = response.items,
                            ![Len(wire)].nextPageToken = response.nextPageToken]
    /\ IF response.status = Rejected
       THEN api' = [api EXCEPT !.pc = "done", !.error = "Failed to fetch"]
       ELSE IF response.status = 401
       THEN api' = [api EXCEPT !.pc = "done", !.error = SessionExpired]
       ELSE IF response.status # 200
       THEN api' = [api EXCEPT !.pc = "done", !.error = apiErrorMessage(response)]
       ELSE api' = [api EXCEPT !.pc = "done",
                               !.body = [items |-> response.items,
                                         nextPageToken |-> response.nextPageToken]]
    /\ UNCHANGED <<store, now, auth, so, server, authStatus>>
    /\ UNCHANGED <<walk, job, playlists>>
    /\ UNCHANGED <<mergeVars, workerVars>>

\* apiRequest, lines 497-515: the Data API answered, or fetch rejected.
ApiResponse(response) ==
    /\ api.pc = "awaitResponse"
    /\ response \in ApiResponses
    /\ wire' = [wire EXCEPT ![Len(wire)].status = response.status,
                            ![Len(wire)].message = response.message,
                            ![Len(wire)].items = response.items,
                            ![Len(wire)].nextPageToken = response.nextPageToken]
    /\ IF response.status = Rejected
       THEN /\ api' = [api EXCEPT !.pc = "done", !.error = "Failed to fetch"]
            /\ UNCHANGED store
       ELSE IF response.status = 401
       THEN /\ store' = clearTokens(store)
            /\ api' = [api EXCEPT !.pc = "done", !.error = SessionExpired]
       ELSE IF response.status # 200
       THEN /\ api' = [api EXCEPT !.pc = "done", !.error = apiErrorMessage(response)]
            /\ UNCHANGED store
       ELSE /\ api' = [api EXCEPT !.pc = "done",
                                  !.body = [items |-> response.items,
                                            nextPageToken |-> response.nextPageToken]]
            /\ UNCHANGED store
    /\ UNCHANGED <<now, auth, so, server, authStatus>>
    /\ UNCHANGED <<walk, job, playlists>>
    /\ UNCHANGED <<mergeVars, workerVars>>

EndpointOf(kind) == IF kind = "playlistItems" THEN "/playlistItems" ELSE "/playlists"

\* fetchAllUserPlaylists, lines 536-541, and fetchAllPlaylistItems, lines
\* 581-586: the empty array, no pageToken, and the request of the first page.
WalkStart(kind, playlistId) ==
    /\ WalkResting
    /\ ApiResting
    /\ walk' = [WalkIdle EXCEPT !.pc = "running", !.kind = kind,
                                !.playlistId = playlistId]
    /\ wire' = <<>>
    /\ ApiRequest(EndpointOf(kind), playlistId, 0)

\* The body of the do-while loop after the await: apiRequest returned a page
\* or threw.  A page is pushed; with a nextPageToken the next page is
\* requested, without one the array is returned.
WalkPage ==
    /\ walk.pc = "running"
    /\ api.pc = "done"
    /\ IF api.error # "none"
       THEN /\ walk' = [walk EXCEPT !.pc = "done", !.error = api.error]
            /\ UNCHANGED <<api, tokenVars, mergeVars>>
       ELSE LET out == pushItems(walk.kind, walk.out, api.body.items)
                pageToken == continuationOf(api.body)
            IN  IF pageToken # 0
                THEN /\ walk' = [walk EXCEPT !.out = out, !.pageToken = pageToken]
                     /\ ApiRequest(api.endpoint, api.id, pageToken)
                ELSE /\ walk' = [walk EXCEPT !.pc = "done", !.out = out,
                                             !.result = out]
                     /\ UNCHANGED <<api, tokenVars, mergeVars>>
    /\ UNCHANGED <<wire, job, playlists>>
    /\ UNCHANGED workerVars

-----------------------------------------------------------------------------
(* SpecFetch: the playlist fetcher, one fetchAll* call at a time, with the  *)
(* clock and the token manager behind apiRequest.                           *)

\* The credentials the store may hold when a fetch starts: none, or those of
\* a sign-in at StartTime whose token lives 90 s.
FetchStores == {EmptyStore, storeTokens(EmptyStore, 1, 1, 90, StartTime)}

InitFetch ==
    /\ store \in FetchStores
    /\ now = StartTime
    /\ auth = AuthIdle
    /\ so = SignOutIdle
    /\ server = IF store = EmptyStore
                THEN [issued |-> 0, refreshIssued |-> 0, refreshes |-> 0,
                      expiresIn |-> 0, grantedAt |-> 0]
                ELSE [issued |-> 1, refreshIssued |-> 1, refreshes |-> 0,
                      expiresIn |-> (store.tokenExpiry + ExpiryBuffer - StartTime)
                                       \div 1000,
                      grantedAt |-> StartTime]
    /\ authStatus = FALSE
    /\ MergeIdle
    /\ SyncIdle
    /\ WorkerIdle

NextFetch ==
    \/ \E playlistId \in PlaylistIds :
           JobResting /\ WalkStart("playlistItems", playlistId)
               /\ UNCHANGED <<job, playlists, workerVars>>
    \/ JobResting /\ WalkStart("userPlaylists", "none")
           /\ UNCHANGED <<job, playlists, workerVars>>
    \/ ApiSend
    \/ \E response \in ApiResponses : ApiResponse(response)
    \/ WalkPage
    \/ \E ok \in BOOLEAN, expiresIn \in {0, 90, 3600} :
           RefreshResponse(ok, FALSE, expiresIn)
    \/ Tick

SpecFetch == InitFetch /\ [][NextFetch]_vars

-----------------------------------------------------------------------------
(* service-worker.js, sync orchestrator; storage.js *)

\* The order of the keys of the playlists map, which Object.values follows.
PlaylistOrder == <<"P1", "P2">>

\* getMonitoredPlaylists: the monitored playlists of the map, by id.
getMonitoredPlaylists(map) ==
    SelectSeq(PlaylistOrder,
              LAMBDA id : map[id].playlistId # Undef /\ map[id].monitored)

savePlaylist_onlyThis(map, playlist) ==
    [id \in PlaylistIds |-> IF id = playlist.playlistId THEN playlist ELSE NoPlaylist]

\* savePlaylist: the map with the playlist under its playlistId.
savePlaylist(map, playlist) == [map EXCEPT ![playlist.playlistId] = playlist]

onSyncSuccess_countOnly(j, syncResult) ==
    IF j.op = "syncAll"
    THEN [j EXCEPT !.pc = "loop", !.outcome = syncResult,
                   !.results.synced = @ + 1]
    ELSE [j EXCEPT !.pc = "done", !.outcome = syncResult]

\* syncPlaylist returned: in the loop of syncAllPlaylists, lines 82-84, the
\* counters are updated; alone, the result goes to the caller.
onSyncSuccess(j, syncResult) ==
    IF j.op = "syncAll"
    THEN [j EXCEPT !.pc = "loop", !.outcome = syncResult,
                   !.results.synced = @ + 1,
                   !.results.unavailable = @ + syncResult.unavailableCount]
    ELSE [j EXCEPT !.pc = "done", !.outcome = syncResult]

onSyncError_newestFirst(j, message) ==
    IF j.op = "syncAll"
    THEN [j EXCEPT !.pc = "loop", !.outcome.error = message,
                   !.results.errors =
                       <<[playlistId |-> j.playlistId, error |-> message]>> \o @]
    ELSE [j EXCEPT !.pc = "done", !.outcome.error = message]

onSyncError_abort(j, message) ==
    IF j.op = "syncAll"
    THEN [j EXCEPT !.pc = "loop", !.outcome.error = message, !.queue = <<>>,
                   !.results.errors =
                       Append(@, [playlistId |-> j.playlistId, error |-> message])]
    ELSE [j EXCEPT !.pc = "done", !.outcome.error = message]

\* syncPlaylist threw: in the loop of syncAllPlaylists, lines 85-90, the error
\* is pushed with the playlist's id; alone, it goes to the caller.
onSyncError(j, message) ==
    IF j.op = "syncAll"
    THEN [j EXCEPT !.pc = "loop", !.outcome.error = message,
                   !.results.errors =
                       Append(@, [playlistId |-> j.playlistId, error |-> message])]
    ELSE [j EXCEPT !.pc = "done", !.outcome.error = message]

\* syncPlaylist, lines 108-111: getPlaylist, then fetchPlaylistMetadata up to
\* the getAuthToken call of its apiRequest.
SyncPlaylistStart(j, playlistId) ==
    /\ WalkResting
    /\ ApiResting
    /\ job' = [j EXCEPT !.pc = "metadata", !.playlistId = playlistId,
                        !.playlist = playlists[playlistId],
                        !.metadata = NoPlaylist,
                        !.attempted = Append(@, playlistId),
                        !.outcome = JobIdle.outcome]
    /\ wire' = <<>>
    /\ ApiRequest("/playlists", playlistId, 0)
    /\ UNCHANGED <<walk, playlists>>

\* The sync of one playlist on its own (the syncPlaylist message).
SyncPlaylist(playlistId) ==
    /\ job.pc = "idle"
    /\ SyncPlaylistStart([JobIdle EXCEPT !.op = "syncPlaylist"], playlistId)

SyncMetadata_stampsOnFailure ==
    /\ job.pc = "metadata"
    /\ api.pc = "done"
    /\ IF api.error # "none"
       THEN /\ job' = onSyncError(job, api.error)
            /\ UNCHANGED <<api, wire, walk, tokenVars, mergeVars>>
       ELSE IF api.body.items = <<>>
       THEN /\ job' = onSyncError(job, "Playlist " \o job.playlistId \o " not found")
            /\ UNCHANGED <<api, wire, walk, tokenVars, mergeVars>>
       ELSE /\ job' = [job EXCEPT !.pc = "items",
                                  !.metadata = toPlaylist(api.body.items[1])]
            /\ WalkStart("playlistItems", job.playlistId)
    /\ playlists' = IF api.error # "none"
                     THEN [playlists EXCEPT ![job.playlistId].lastSyncedAt = now]
                     ELSE playlists
    /\ UNCHANGED workerVars

\* fetchPlaylistMetadata, lines 630-643, and syncPlaylist, line 114: the
\* metadata request returned or threw; with metadata, fetchAllPlaylistItems
\* starts.
SyncMetadata ==
    /\ job.pc = "metadata"
    /\ api.pc = "done"
    /\ IF api.error # "none"
       THEN /\ job' = onSyncError(job, api.error)
            /\ UNCHANGED <<api, wire, walk, tokenVars, mergeVars>>
       ELSE IF api.body.items = <<>>
       THEN /\ job' = onSyncError(job, "Playlist " \o job.playlistId \o " not found")
            /\ UNCHANGED <<api, wire, walk, tokenVars, mergeVars>>
       ELSE /\ job' = [job EXCEPT !.pc = "items",
                                  !.metadata = toPlaylist(api.body.items[1])]
            /\ WalkStart("playlistItems", job.playlistId)
    /\ UNCHANGED playlists
    /\ UNCHANGED workerVars

\* syncPlaylist, lines 117-130: the playlist with the fresh metadata.
withMetadata(playlist, playlistId, metadata) ==
    IF playlist.playlistId = Undef
    THEN [playlistId |-> metadata.playlistId, title |-> metadata.title,
          itemCount |-> metadata.itemCount, monitored |-> TRUE,
          videos |-> <<>>, lastSyncedAt |-> 0]
    ELSE [playlist EXCEPT !.playlistId = metadata.playlistId,
                          !.title = metadata.title,
                          !.itemCount = metadata.itemCount]

\* syncPlaylist, lines 114-140: fetchAllPlaylistItems returned or threw; the
\* merged playlist is saved (saved = FALSE: chrome.storage.local.set rejects).
SyncItems(saved) ==
    /\ job.pc = "items"
    /\ walk.pc = "done"
    /\ IF walk.error # "none"
       THEN /\ saved
            /\ job' = onSyncError(job, walk.error)
            /\ UNCHANGED playlists
       ELSE LET base == withMetadata(job.playlist, job.playlistId, job.metadata)
                playlist == [base EXCEPT
                               !.videos = mergeVideos(base.videos, walk.result),
                               !.lastSyncedAt = now]
            IN  IF saved
                THEN /\ playlists' = savePlaylist(playlists, playlist)
                     /\ job' = onSyncSuccess(
                                  [job EXCEPT !.playlist = playlist],
                                  [unavailableCount |-> countUnavailable(playlist.videos),
                                   videoCount |-> Len(playlist.videos),
                                   error |-> "none"])
                ELSE /\ job' = onSyncError(job, "QUOTA_BYTES quota exceeded")
                     /\ UNCHANGED playlists
    /\ UNCHANGED <<api, wire, walk>>
    /\ UNCHANGED <<tokenVars, mergeVars, workerVars>>

SyncAllStart_noAuthCheck ==
    /\ job.pc = "idle"
    /\ LET monitoredPlaylists == getMonitoredPlaylists(playlists)
       IN  job' = [JobIdle EXCEPT !.op = "syncAll", !.pc = "loop",
                                  !.monitored = monitoredPlaylists,
                                  !.queue = monitoredPlaylists]
    /\ UNCHANGED <<api, wire, walk, playlists>>
    /\ UNCHANGED <<tokenVars, mergeVars>>

\* syncAllPlaylists, lines 65-78: results, isAuthenticated, and, signed in,
\* getMonitoredPlaylists.
SyncAllStart ==
    /\ job.pc = "idle"
    /\ LET isAuth == getStoredTokens(store).refreshToken # 0
           monitoredPlaylists == getMonitoredPlaylists(playlists)
       IN  job' = IF ~isAuth
                  THEN [JobIdle EXCEPT !.op = "syncAll", !.pc = "done"]
                  ELSE [JobIdle EXCEPT !.op = "syncAll", !.pc = "loop",
                                       !.signedIn = TRUE,
                                       !.monitored = monitoredPlaylists,
                                       !.queue = monitoredPlaylists]
    /\ UNCHANGED <<api, wire, walk, playlists>>
    /\ UNCHANGED <<tokenVars, mergeVars>>

SyncAllNext_neverReturns ==
    /\ job.op = "syncAll"
    /\ job.pc = "loop"
    /\ IF job.queue = <<>>
       THEN /\ job' = job
            /\ UNCHANGED <<api, wire, walk, playlists>>
            /\ UNCHANGED <<tokenVars, mergeVars>>
       ELSE SyncPlaylistStart([job EXCEPT !.queue = Tail(@)], Head(job.queue))
    /\ UNCHANGED workerVars

\* syncAllPlaylists, lines 80-98: the next playlist of the loop, or, after the
\* last, updateBadge and the return of results.
SyncAllNext ==
    /\ job.op = "syncAll"
    /\ job.pc = "loop"
    /\ IF job.queue = <<>>
       THEN /\ job' = [job EXCEPT !.pc = "done"]
            /\ UNCHANGED <<api, wire, walk, playlists>>
            /\ UNCHANGED <<tokenVars, mergeVars>>
       ELSE SyncPlaylistStart([job EXCEPT !.queue = Tail(@)], Head(job.queue))
    /\ UNCHANGED workerVars

-----------------------------------------------------------------------------
(* SpecSync: one run of the orchestrator, the sync of a playlist on its own *)
(* or a bulk cycle over the monitored playlists, started from the stored    *)
(* states below, before or after the stored access token has expired.       *)

\* A playlist as the store holds it after it was added and synced at
\* StartTime - TickMs, when its one video was available.
StoredPlaylist(id, monitored) ==
    [playlistId |-> id, title |-> "Mix", itemCount |-> 1, monitored |-> monitored,
     videos |-> <<Fetched("b", "Cat Video", "X", "u", FALSE)>>,
     lastSyncedAt |-> StartTime - TickMs]

\* The token manager, the fetcher and the store before an operation starts.
StoredStates ==
    /\ store \in FetchStores
    /\ now \in {StartTime, StartTime + TickMs}
    /\ auth = AuthIdle
    /\ so = SignOutIdle
    /\ server = IF store = EmptyStore
                THEN [issued |-> 0, refreshIssued |-> 0, refreshes |-> 0,
                      expiresIn |-> 0, grantedAt |-> 0]
                ELSE [issued |-> 1, refreshIssued |-> 1, refreshes |-> 0,
                      expiresIn |-> 90, grantedAt |-> StartTime]
    /\ authStatus = FALSE
    /\ MergeIdle
    /\ api = ApiIdle
    /\ wire = <<>>
    /\ walk = WalkIdle
    /\ job = JobIdle
    /\ playlists \in [PlaylistIds ->
                         {NoPlaylist} \cup
                         UNION {{StoredPlaylist(id, m) : m \in BOOLEAN} :
                                   id \in PlaylistIds}]
    /\ \A id \in PlaylistIds : playlists[id].playlistId \in {Undef, id}

InitSync == StoredStates /\ WorkerIdle

NextSync ==
    \/ \E playlistId \in PlaylistIds : SyncPlaylist(playlistId) /\ UNCHANGED workerVars
    \/ SyncAllStart /\ UNCHANGED workerVars
    \/ SyncAllNext
    \/ SyncMetadata
    \/ \E saved \in BOOLEAN : SyncItems(saved)
    \/ ApiSend
    \/ \E response \in ApiResponses : ApiResponse(response)
    \/ WalkPage
    \/ \E ok \in BOOLEAN, expiresIn \in {0, 90, 3600} :
           RefreshResponse(ok, FALSE, expiresIn)

SpecSync == InitSync /\ [][NextSync]_vars

\* SpecSync with its scheduling: a handler that can resume does resume, and
\* every request that was sent is answered (or its fetch rejects).  Nothing
\* forces an operation to start.
SyncFairness ==
    /\ WF_vars(SyncAllNext)
    /\ WF_vars(SyncMetadata)
    /\ WF_vars(\E saved \in BOOLEAN : SyncItems(saved))
    /\ WF_vars(ApiSend)
    /\ WF_vars(\E response \in ApiResponses : ApiResponse(response))
    /\ WF_vars(WalkPage)
    /\ WF_vars(\E ok \in BOOLEAN, expiresIn \in {0, 90, 3600} :
                   RefreshResponse(ok, FALSE, expiresIn))

SpecSyncLive == SpecSync /\ SyncFairness

-----------------------------------------------------------------------------
(* service-worker.js, event handlers; storage.js, settings *)

SYNC_ALARM_NAME == "playlist-sync"

\* FREQUENCY_MINUTES[frequency]; 0: the key is missing.
FREQUENCY_MINUTES(frequency) ==
    CASE frequency = "daily" -> 60 * 24
      [] frequency = "weekly" -> 60 * 24 * 7
      [] OTHER -> 0

\* delayInMinutes of the alarm: "First sync after 1 minute".
DelayInMinutes == 1

\* getSettings: { ...DEFAULT_SETTINGS, ...data.settings }
getSettings(st) ==
    [syncFrequency |-> IF st.syncFrequency = Undef THEN "daily" ELSE st.syncFrequency]

\* saveSettings: { ...current, ...settings }
saveSettings(st, new) ==
    [syncFrequency |-> IF new.syncFrequency = Undef
                       THEN getSettings(st).syncFrequency ELSE new.syncFrequency]

periodInMinutes_alwaysDaily(st) == FREQUENCY_MINUTES("daily")

\* FREQUENCY_MINUTES[settings.syncFrequency] || FREQUENCY_MINUTES.daily
periodInMinutes(st) ==
    IF FREQUENCY_MINUTES(st.syncFrequency) # 0
    THEN FREQUENCY_MINUTES(st.syncFrequency)
    ELSE FREQUENCY_MINUTES("daily")

\* chrome.alarms.clear(name): the alarms without the one of that name.
alarmsClear(as, name) == SelectSeq(as, LAMBDA a : a.name # name)

\* chrome.alarms.create(name, info): an alarm of the same name is replaced.
alarmsCreate(as, name, period, delay) ==
    Append(alarmsClear(as, name),
           [name |-> name, periodInMinutes |-> period, delayInMinutes |-> delay])

SetupResting == setup.pc \in {"idle", "done"}
MsgResting == msg.pc \in {"idle", "done"}

\* setupSyncAlarm, lines 47-51: the settings are read (st), the period is
\* computed and the existing alarm is cleared.
SetupStart(caller, st) ==
    /\ SetupResting
    /\ setup' = [pc |-> "cleared", caller |-> caller,
                 periodInMinutes |-> periodInMinutes(getSettings(st))]
    /\ alarms' = alarmsClear(alarms, SYNC_ALARM_NAME)

\* setupSyncAlarm, lines 53-57: the new alarm is created.
SetupCreate ==
    /\ setup.pc = "cleared"
    /\ setup' = [setup EXCEPT !.pc = "done"]
    /\ alarms' = alarmsCreate(alarms, SYNC_ALARM_NAME, setup.periodInMinutes,
                              DelayInMinutes)
    /\ UNCHANGED <<msg, settings, saving>>
    /\ UNCHANGED <<mergeVars, tokenVars, syncVars>>

\* The onInstalled and onStartup listeners, lines 21-32, up to the clear of
\* setupSyncAlarm; updateBadge, which follows, changes none of the state here.
RuntimeEvent(kind) ==
    /\ MsgResting
    /\ SetupStart(kind, settings)
    /\ UNCHANGED <<msg, settings, saving>>
    /\ UNCHANGED <<mergeVars, tokenVars, syncVars>>

\* The onAlarm listener, lines 37-41, for the sync alarm: syncAllPlaylists.
AlarmFires ==
    /\ \E i \in DOMAIN alarms : alarms[i].name = SYNC_ALARM_NAME
    /\ SyncAllStart
    /\ UNCHANGED workerVars

-----------------------------------------------------------------------------
(* service-worker.js, handleMessage *)

Message(action, playlistId, monitored, playlistData, st) ==
    [action |-> action, playlistId |-> playlistId, monitored |-> monitored,
     playlistData |-> playlistData, settings |-> st]

SettingsValues == {[syncFrequency |-> f] : f \in {Undef, "daily", "weekly", "hourly"}}

\* The messages the popup may send; playlistData: the message carries it.
Messages ==
    {Message(a, "none", FALSE, FALSE, NoSettings) :
        a \in {"getAuthStatus", "signIn", "signOut", "fetchPlaylists", "syncAll",
               "getStoredPlaylists", "getMonitoredPlaylists", "getSettings",
               "updateBadge", "dismissBadge", "unknown"}}
    \cup {Message("syncPlaylist", id, FALSE, FALSE, NoSettings) : id \in PlaylistIds}
    \cup {Message("toggleMonitor", id, m, d, NoSettings) :
            id \in PlaylistIds, m \in BOOLEAN, d \in BOOLEAN}
    \cup {Message("saveSettings", "none", FALSE, FALSE, st) : st \in SettingsValues}

Success == [success |-> TRUE]
Failure(message) == [success |-> FALSE, error |-> message]

StorageError == "QUOTA_BYTES quota exceeded"

Handling(m) ==
    [MsgIdle EXCEPT !.pc = "awaiting", !.action = m.action,
                    !.playlistId = m.playlistId]
Resolved(m, response) ==
    [MsgIdle EXCEPT !.pc = "done", !.action = m.action,
                    !.playlistId = m.playlistId, !.response = response]
Threw(m) ==
    [MsgIdle EXCEPT !.pc = "done", !.action = m.action,
                    !.playlistId = m.playlistId, !.rejected = TRUE]

\* toggleMonitor, lines 267-283: the map after the case, the write succeeding.
toggleMonitor(map, m) ==
    IF map[m.playlistId].playlistId # Undef
    THEN savePlaylist(map, [map[m.playlistId] EXCEPT !.monitored = m.monitored])
    ELSE IF m.monitored /\ m.playlistData
    THEN savePlaylist(map, [NoPlaylist EXCEPT !.playlistId = m.playlistId,
                                              !.title = "Mix", !.itemCount = 1,
                                              !.monitored = TRUE])
    ELSE map

\* toggleMonitor calls savePlaylist.
toggleSaves(map, m) ==
    map[m.playlistId].playlistId # Undef \/ (m.monitored /\ m.playlistData)

\* handleMessage, lines 209-314, up to the first await on the token manager,
\* the fetcher, a sync or setupSyncAlarm; the cases that await the store alone
\* run to their return (saved = FALSE: chrome.storage.local.set rejects).
HandleMessage(m, saved) ==
    /\ MsgResting
    /\ saved \/ m.action \in {"toggleMonitor", "saveSettings", "dismissBadge"}
    /\ CASE m.action = "getAuthStatus" ->
              /\ msg' = Resolved(m, [authenticated |->
                                        getStoredTokens(store).refreshToken # 0])
              /\ UNCHANGED <<setup, settings, alarms, saving>>
              /\ UNCHANGED <<mergeVars, tokenVars, syncVars>>
         [] m.action = "signIn" ->
              /\ msg' = Handling(m)
              /\ GetAuthToken(TRUE)
              /\ UNCHANGED <<setup, settings, alarms, saving>>
              /\ UNCHANGED syncVars
         [] m.action = "signOut" ->
              /\ msg' = Handling(m)
              /\ SignOut
              /\ UNCHANGED <<setup, settings, alarms, saving>>
         [] m.action = "fetchPlaylists" ->
              /\ msg' = Handling(m)
              /\ WalkStart("userPlaylists", "none")
              /\ UNCHANGED <<job, playlists>>
              /\ UNCHANGED <<setup, settings, alarms, saving>>
         [] m.action = "syncPlaylist" ->
              /\ msg' = Handling(m)
              /\ SyncPlaylist(m.playlistId)
              /\ UNCHANGED <<setup, settings, alarms, saving>>
         [] m.action = "syncAll" ->
              /\ msg' = Handling(m)
              /\ SyncAllStart
              /\ UNCHANGED <<setup, settings, alarms, saving>>
         [] m.action = "getStoredPlaylists" ->
              /\ msg' = Resolved(m, [success |-> TRUE, playlists |-> playlists])
              /\ UNCHANGED <<setup, settings, alarms, saving>>
              /\ UNCHANGED <<mergeVars, tokenVars, syncVars>>
         [] m.action = "getMonitoredPlaylists" ->
              /\ msg' = Resolved(m, [success |-> TRUE,
                                     playlists |-> getMonitoredPlaylists(playlists)])
              /\ UNCHANGED <<setup, settings, alarms, saving>>
              /\ UNCHANGED <<mergeVars, tokenVars, syncVars>>
         [] m.action = "toggleMonitor" ->
              /\ saved \/ toggleSaves(playlists, m)
              /\ IF saved
                 THEN /\ playlists' = toggleMonitor(playlists, m)
                      /\ msg' = Resolved(m, Success)
                 ELSE /\ UNCHANGED playlists
                      /\ msg' = Resolved(m, Failure(StorageError))
              /\ UNCHANGED <<setup, settings, alarms, saving>>
              /\ UNCHANGED <<api, wire, walk, job>>
              /\ UNCHANGED <<mergeVars, tokenVars>>
         [] m.action = "getSettings" ->
              /\ msg' = Resolved(m, [success |-> TRUE,
                                     settings |-> getSettings(settings)])
              /\ UNCHANGED <<setup, settings, alarms, saving>>
              /\ UNCHANGED <<mergeVars, tokenVars, syncVars>>
         [] m.action = "saveSettings" ->
              /\ IF saved
                 THEN /\ settings' = saveSettings(settings, m.settings)
                      /\ SetupStart("saveSettings", settings')
                      /\ msg' = Handling(m)
                      /\ UNCHANGED saving
                 ELSE /\ msg' = Resolved(m, Failure(StorageError))
                      /\ UNCHANGED <<setup, settings, alarms, saving>>
              /\ UNCHANGED <<mergeVars, tokenVars, syncVars>>
         [] m.action = "updateBadge" ->
              /\ msg' = Resolved(m, Success)
              /\ UNCHANGED <<setup, settings, alarms, saving>>
              /\ UNCHANGED <<mergeVars, tokenVars, syncVars>>
         [] m.action = "dismissBadge" ->
              /\ msg' = IF saved THEN Resolved(m, Success) ELSE Threw(m)
              /\ UNCHANGED <<setup, settings, alarms, saving>>
              /\ UNCHANGED <<mergeVars, tokenVars, syncVars>>
         [] OTHER ->
              /\ msg' = Resolved(m, Failure("Unknown action"))
              /\ UNCHANGED <<setup, settings, alarms, saving>>
              /\ UNCHANGED <<mergeVars, tokenVars, syncVars>>

\* handleMessage after the await: what the case returns once the token
\* manager, the fetcher, the sync or setupSyncAlarm has returned or thrown.
HandleMessageReturn ==
    /\ msg.pc = "awaiting"
    /\ CASE msg.action = "signIn" ->
              /\ auth.pc = "done"
              /\ msg' = [msg EXCEPT !.pc = "done",
                                    !.response = IF auth.error = "none" THEN Success
                                                 ELSE Failure(auth.error)]
         [] msg.action = "signOut" ->
              /\ so.pc = "done"
              /\ msg' = [msg EXCEPT !.pc = "done", !.response = Success]
         [] msg.action = "fetchPlaylists" ->
              /\ walk.pc = "done"
              /\ msg' = [msg EXCEPT !.pc = "done",
                                    !.response =
                                        IF walk.error = "none"
                                        THEN [success |-> TRUE,
                                              playlists |-> walk.result]
                                        ELSE Failure(walk.error)]
         [] msg.action = "syncPlaylist" ->
              /\ job.pc = "done"
              /\ msg' = [msg EXCEPT !.pc = "done",
                                    !.response =
                                        IF job.outcome.error = "none"
                                        THEN [success |-> TRUE,
                                              unavailableCount |->
                                                  job.outcome.unavailableCount,
                                              videoCount |-> job.outcome.videoCount]
                                        ELSE Failure(job.outcome.error)]
         [] msg.action = "syncAll" ->
              /\ job.pc = "done"
              /\ msg' = [msg EXCEPT !.pc = "done",
                                    !.response =
                                        [success |-> TRUE,
                                         synced |-> job.results.synced,
                                         unavailable |-> job.results.unavailable,
                                         errors |-> job.results.errors]]
         [] msg.action = "saveSettings" ->
              /\ setup.pc = "done"
              /\ msg' = [msg EXCEPT !.pc = "done", !.response = Success]
    /\ UNCHANGED <<setup, settings, alarms, saving>>
    /\ UNCHANGED <<mergeVars, tokenVars, syncVars>>

-----------------------------------------------------------------------------
(* SpecMessage: the service worker handling one event, a message of the     *)
(* popup or the sync alarm, from the stored states of SpecSync, with the    *)
(* alarm that the stored settings ask for.                                  *)

\* Nothing is running.
Quiet ==
    /\ msg.pc = "idle" /\ setup.pc = "idle" /\ job.pc = "idle"
    /\ WalkResting /\ ApiResting /\ AuthResting /\ SignOutResting

InitMessage ==
    /\ StoredStates
    /\ msg = MsgIdle
    /\ setup = SetupIdle
    /\ settings \in {NoSettings, [syncFrequency |-> "weekly"]}
    /\ alarms = alarmsCreate(<<>>, SYNC_ALARM_NAME,
                             periodInMinutes(getSettings(settings)), DelayInMinutes)
    /\ saving = NoSaves

NextMessage ==
    \/ \E m \in Messages, saved \in BOOLEAN : Quiet /\ HandleMessage(m, saved)
    \/ HandleMessageReturn
    \/ Quiet /\ AlarmFires
    \/ SetupCreate
    \/ SyncAllNext
    \/ SyncMetadata
    \/ \E saved \in BOOLEAN : SyncItems(saved)
    \/ ApiSend
    \/ \E response \in ApiResponses : ApiResponse(response)
    \/ WalkPage
    \/ \E ok \in BOOLEAN, expiresIn \in {0, 90, 3600} :
           RefreshResponse(ok, FALSE, expiresIn)
    \/ \E outcome \in {"lastError", "noRedirect", "noCode", "code"} :
           AuthFlowCallback(outcome)
    \/ \E outcome \in {"ok", "notOk", "rejected"}, withRefresh \in BOOLEAN,
          expiresIn \in {0, 3600} :
           ExchangeResponse(outcome, withRefresh, expiresIn)
    \/ \E ok \in BOOLEAN : RevokeResponse(ok)

SpecMessage == InitMessage /\ [][NextMessage]_vars

-----------------------------------------------------------------------------
(* Vocabulary of the claims about the reconciliation engine. *)

\* Unavailable, as the claims define it.
Unavailable(v) ==
    v.isUnavailable \/ v.title \in {"Deleted video", "Private video"}

\* The records of list P with videoId id.
Priors(P, id) == {P[j] : j \in {k \in DOMAIN P : P[k].videoId = id}}

Originals(v) == <<v.originalTitle, v.originalChannelTitle, v.originalThumbnailUrl>>

NoOriginals(v) == Originals(v) = <<Undef, Undef, Undef>>

IdsOf(s) == {s[i].videoId : i \in DOMAIN s}

Merged == nMerges >= 1      \* merged = mergeVideos(previous, fresh) was computed

\* C1: the merged list has the length of the fresh list and, place by place,
\* the videoId of the fresh list; nothing comes from the previous list's
\* order or membership.
C1_OrderAndMembershipFromFresh ==
    Merged =>
        /\ Len(merged) = Len(fresh)
        /\ DOMAIN merged = DOMAIN fresh
        /\ \A i \in DOMAIN fresh : merged[i].videoId = fresh[i].videoId

\* C1 witness: a merge where one id is only in previous and another only in fresh.
C1_Witness ==
    /\ Merged
    /\ Len(fresh) = MaxLen
    /\ IdsOf(previous) \ IdsOf(fresh) # {}
    /\ IdsOf(fresh) \ IdsOf(previous) # {}
    /\ IdsOf(merged) = IdsOf(fresh)

\* C2: an item unavailable in fresh whose previous record is available is
\* merged into the fresh record plus originalTitle, originalChannelTitle and
\* originalThumbnailUrl taken from the previous record's title, channelTitle
\* and thumbnailUrl; available items of the same merge stay as fetched.
C2_TransitionPreservesMetadata ==
    Merged =>
        \A i \in DOMAIN fresh : \A p \in Priors(previous, fresh[i].videoId) :
            (Unavailable(fresh[i]) /\ ~Unavailable(p)) =>
                /\ merged[i] = [fresh[i] EXCEPT
                                  !.originalTitle = p.title,
                                  !.originalChannelTitle = p.channelTitle,
                                  !.originalThumbnailUrl = p.thumbnailUrl]
                /\ \A j \in DOMAIN fresh :
                       ~Unavailable(fresh[j]) => merged[j] = fresh[j]

\* C2 witness: of two items, one went from available to unavailable and
\* carries the previous title, the other is still available.
C2_Witness ==
    /\ Merged
    /\ Len(fresh) = 2
    /\ \E i, j \in DOMAIN fresh :
        /\ Unavailable(fresh[i])
        /\ \E p \in Priors(previous, fresh[i].videoId) : ~Unavailable(p)
        /\ Originals(merged[i]) = <<"Cat Video", "X", "u">>
        /\ ~Unavailable(fresh[j])
        /\ NoOriginals(merged[j])

\* C3: once a merge has produced a record with preserved originals, a further
\* merge of that output with a fresh list in which the item is still
\* unavailable leaves the three original* fields as they were, whatever
\* their values.
C3_OriginalsSurviveFurtherMerges ==
    [][(nMerges >= 1 /\ nMerges' = nMerges + 1) =>
          \A j \in DOMAIN merged : \A i \in DOMAIN fresh' :
              ( /\ merged[j].videoId = fresh'[i].videoId
                /\ merged[j].originalTitle # Undef
                /\ Unavailable(merged[j])
                /\ Unavailable(fresh'[i]) )
              => Originals(merged'[i]) = Originals(merged[j])]_vars

\* C4: an item available in fresh is merged to the fresh record itself, with
\* no original* field, whatever the previous list held for its id.
C4_AvailableIsFreshAsIs ==
    Merged =>
        \A i \in DOMAIN fresh :
            ~Unavailable(fresh[i]) => (merged[i] = fresh[i] /\ NoOriginals(merged[i]))

\* C4 witness: an item with preserved originals came back available.
C4_Witness ==
    /\ Merged
    /\ \E i \in DOMAIN fresh : \E p \in Priors(previous, fresh[i].videoId) :
        /\ ~Unavailable(fresh[i])
        /\ Unavailable(p)
        /\ Originals(p) = <<"Cat Video", "X", "u">>
        /\ NoOriginals(merged[i])

\* C5: an item unavailable in fresh that has no previous record, or whose
\* previous record is unavailable without preserved originals, is merged to
\* the fresh record itself, with no original* field.
C5_NothingToPreserve ==
    Merged =>
        \A i \in DOMAIN fresh :
            ( /\ Unavailable(fresh[i])
              /\ \A p \in Priors(previous, fresh[i].videoId) :
                     Unavailable(p) /\ NoOriginals(p) )
            => (merged[i] = fresh[i] /\ NoOriginals(merged[i]))

\* C5 witness: one unavailable item never seen before and one whose previous
\* record was already unavailable with nothing preserved.
C5_Witness ==
    /\ Merged
    /\ \E i, j \in DOMAIN fresh :
        /\ Unavailable(fresh[i])
        /\ Priors(previous, fresh[i].videoId) = {}
        /\ merged[i] = fresh[i]
        /\ Unavailable(fresh[j])
        /\ \E p \in Priors(previous, fresh[j].videoId) :
               Unavailable(p) /\ NoOriginals(p)
        /\ merged[j] = fresh[j]

\* C6: merging the output of a merge once more against the same fresh list
\* returns that output again, record for record.
C6_MergeIdempotent ==
    [][(nMerges >= 1 /\ nMerges' = nMerges + 1 /\ fresh' = fresh) =>
          merged' = merged]_vars

\* C7: isVideoUnavailable is true of a record exactly when its isUnavailable
\* flag is set or its title is 'Deleted video' or 'Private video', in
\* whichever list (stored, fetched, merged) the record stands.
C7_UnavailableIffFlagOrSentinel ==
    \A s \in {previous, fresh, merged} : \A i \in DOMAIN s :
        isVideoUnavailable(s[i]) <=>
            (s[i].isUnavailable \/ s[i].title = "Deleted video"
                                \/ s[i].title = "Private video")

\* C7 witness: the merge classified a private video whose flag is not set as
\* unavailable, and preserved its previous metadata on that ground.
C7_Witness ==
    /\ Merged
    /\ \E i \in DOMAIN fresh :
        /\ fresh[i].title = "Private video"
        /\ ~fresh[i].isUnavailable
        /\ merged[i].originalTitle = "Cat Video"
    /\ unavailableCount = 1

\* C8: countUnavailable of a list is the number of its places that hold an
\* unavailable record; 0 for the empty list.
C8_CountIsNumberUnavailable ==
    Merged =>
        unavailableCount =
            Cardinality({i \in DOMAIN merged : Unavailable(merged[i])})

\* C8 witness: a list of two, one record unavailable and counted, the other not.
C8_Witness ==
    /\ Merged
    /\ Len(merged) = 2
    /\ unavailableCount = 1
    /\ \E i \in DOMAIN merged : ~Unavailable(merged[i])

-----------------------------------------------------------------------------
(* Claims about the token manager. *)

\* A step that starts a getAuthToken call.
AuthCallStarts == AuthResting /\ auth' # auth

\* C9: a getAuthToken call, interactive or not, that finds an access token
\* stored and the clock strictly before the stored tokenExpiry returns that
\* token, sends no request and leaves store and server as they are, however
\* little time is left before the stored expiry.
C9_CachedTokenReturnedUntouched ==
    [][( /\ AuthCallStarts
         /\ store.accessToken # 0
         /\ store.tokenExpiry # 0
         /\ now < store.tokenExpiry )
       => ( /\ auth'.pc = "done"
            /\ auth'.error = "none"
            /\ auth'.result = store.accessToken
            /\ auth'.requests = <<>>
            /\ store' = store
            /\ server' = server )]_vars

\* C9 witness: a call returned the cached token without any request when
\* less than the 60 s margin was left before the stored expiry.
C9_Witness ==
    /\ auth.pc = "done"
    /\ auth.error = "none"
    /\ auth.requests = <<>>
    /\ auth.result # 0
    /\ auth.result = store.accessToken
    /\ auth.startedAt < store.tokenExpiry
    /\ store.tokenExpiry - auth.startedAt < ExpiryBuffer

\* C10: getAuthToken(false) with an expired access token and a refresh token
\* stored sends exactly one refresh exchange; when the exchange succeeds the
\* call returns the token just issued, that token is the stored accessToken
\* and the stored refreshToken is the one the call found; round after round.
C10_RefreshKeepsRefreshToken ==
    [][ /\ ( /\ AuthCallStarts
             /\ ~auth'.interactive
             /\ ~(store.accessToken # 0 /\ store.tokenExpiry # 0
                    /\ now < store.tokenExpiry)
             /\ store.refreshToken # 0 )
           => (auth'.pc = "awaitRefresh" /\ auth'.requests = <<"refresh">>)
        /\ ( /\ auth.pc = "awaitRefresh"
             /\ ~auth.interactive
             /\ auth'.pc = "done" )
           => ( /\ auth'.requests = <<"refresh">>
                /\ auth'.error = "none" =>
                     /\ server'.issued = server.issued + 1
                     /\ auth'.result = server'.issued
                     /\ store'.accessToken = auth'.result
                     /\ store'.refreshToken = auth.stored.refreshToken
                     /\ store'.refreshToken = store.refreshToken ) ]_vars

\* C10 witness: the second successful refresh in a row has returned: the
\* returned token is the stored one and the refresh token is still the one
\* the call found.
C10_Witness ==
    /\ auth.pc = "done"
    /\ ~auth.interactive
    /\ auth.error = "none"
    /\ auth.requests = <<"refresh">>
    /\ server.refreshes >= 2
    /\ auth.result = server.issued
    /\ store.accessToken = auth.result
    /\ auth.stored.refreshToken # 0
    /\ store.refreshToken = auth.stored.refreshToken

\* C11: whenever an access token is stored, the stored tokenExpiry is the time
\* of storing plus the lifetime the server declared for that token (seconds
\* times 1000) minus 60000 ms.
C11_ExpiryIsGrantPlusLifetimeMinusMargin ==
    [][server'.issued # server.issued =>
          /\ store'.accessToken = server'.issued
          /\ store'.tokenExpiry =
                 now' + (server'.expiresIn * 1000) - ExpiryBuffer]_vars

\* C12: getAuthToken(false) with no refresh token stored and no valid access
\* token (nothing stored at all, or an expired access token) fails with
\* 'No valid token', sends no request and does not open the interactive flow.
C12_NoValidTokenWithoutPrompt ==
    [][( /\ AuthCallStarts
         /\ ~auth'.interactive
         /\ store.refreshToken = 0
         /\ \/ store = EmptyStore
            \/ (store.accessToken # 0 /\ store.tokenExpiry <= now) )
       => ( /\ auth'.pc = "done"
            /\ auth'.error = "No valid token"
            /\ auth'.result = 0
            /\ auth'.requests = <<>>
            /\ store' = store
            /\ server' = server )]_vars

\* C12 witness: the call failed with 'No valid token' on an expired access
\* token stored without a refresh token.
C12_Witness ==
    /\ auth.pc = "done"
    /\ ~auth.interactive
    /\ auth.error = "No valid token"
    /\ auth.requests = <<>>
    /\ auth.stored.accessToken # 0
    /\ auth.stored.refreshToken = 0
    /\ auth.stored.tokenExpiry <= auth.startedAt

\* C13: when the refresh exchange of a getAuthToken(false) call fails, the
\* call ends with the refresh-failure error, which is not the no-valid-token
\* error, returns no token and never reaches the interactive flow.
C13_RefreshFailureNotInteractive ==
    [][( /\ auth.pc = "awaitRefresh"
         /\ ~auth.interactive
         /\ auth' # auth
         /\ server'.issued = server.issued )
       => ( /\ auth'.pc = "done"
            /\ auth'.error = "Token expired and refresh failed"
            /\ auth'.error # "No valid token"
            /\ auth'.result = 0
            /\ auth'.requests = <<"refresh">>
            /\ store' = store )]_vars

\* C13 witness: a non-interactive call ended with the refresh-failure error
\* after its one refresh request.
C13_Witness ==
    /\ auth.pc = "done"
    /\ ~auth.interactive
    /\ auth.error = "Token expired and refresh failed"
    /\ auth.result = 0
    /\ auth.requests = <<"refresh">>
    /\ auth.stored.refreshToken # 0

\* C14: isAuthenticated answers whether a refresh token is stored, whatever
\* the access token and its expiry are, and changes nothing else.
C14_SignedInIffRefreshToken ==
    [][authStatus' # authStatus =>
          /\ authStatus' = (store.refreshToken # 0)
          /\ store' = store
          /\ server' = server
          /\ auth' = auth
          /\ so' = so]_vars

\* C14 witness: isAuthenticated answered true while the stored access token
\* was expired.
C14_Witness ==
    /\ authStatus
    /\ store.refreshToken # 0
    /\ store.accessToken # 0
    /\ store.tokenExpiry <= now
    /\ AuthResting /\ auth.error = "none"

\* C15: when signOut completes the three credential keys are absent, whether
\* the revocation request succeeded, failed or was not sent, and signOut
\* reports no error; getAuthToken(false) on the cleared store fails.
C15_SignOutClearsStore ==
    [][ /\ (so'.pc = "done" /\ so' # so) =>
               /\ store' = EmptyStore
               /\ so'.error = "none"
        /\ (so.pc = "awaitRevoke" /\ so' # so) => so'.pc = "done"
        /\ (so.pc = "done" /\ store = EmptyStore /\ AuthCallStarts
              /\ ~auth'.interactive) =>
               /\ auth'.pc = "done"
               /\ auth'.error = "No valid token"
               /\ auth'.result = 0 ]_vars

\* C15 witness: signOut finished after sending the revocation request and
\* a later getAuthToken(false) failed on the empty store.
C15_Witness ==
    /\ so.pc = "done"
    /\ so.requests = <<"revoke">>
    /\ store = EmptyStore
    /\ auth.pc = "done"
    /\ auth.stored = EmptyStore
    /\ auth.error = "No valid token"
    /\ server.issued >= 1
    /\ ~authStatus

-----------------------------------------------------------------------------
(* Vocabulary of the claims about the playlist fetcher. *)

\* The records of one page, in the order of the page.
RecordsOf(kind, items) ==
    [i \in 1..Len(items) |->
        IF kind = "playlistItems" THEN toVideo(items[i]) ELSE toPlaylist(items[i])]

\* The records of the first n pages served, in the order they were served.
RECURSIVE PagesUpTo(_, _, _)
PagesUpTo(kind, w, n) ==
    IF n = 0 THEN <<>>
    ELSE PagesUpTo(kind, w, n - 1) \o RecordsOf(kind, w[n].items)

\* This step sends a request to the Data API.
RequestSent == Len(wire') = Len(wire) + 1

\* This step ends the fetchAll* call.
WalkEnds == walk.pc = "running" /\ walk'.pc = "done"

-----------------------------------------------------------------------------
(* C16: a fetchAll* call asks getAuthToken(false) for a token before every  *)
(* page request and sends the token it returned; the first request carries  *)
(* no page token, every later one the continuation token of the page before *)
(* it; the call returns at the first page without a continuation token, and *)
(* returns the records of all the pages in the order they were served.      *)
C16_PagesChainedAndConcatenated ==
    [][/\ (api'.pc = "awaitToken" /\ api' # api) =>
              /\ auth'.startedAt = now
              /\ ~auth'.interactive
              /\ auth'.stored = getStoredTokens(store)
       /\ RequestSent =>
              /\ api.pc = "awaitToken"
              /\ auth.pc = "done" /\ auth.error = "none" /\ ~auth.interactive
              /\ wire'[Len(wire')].token = auth.result
              /\ \/ /\ TokenValid(auth.stored, auth.startedAt)
                    /\ auth.result = auth.stored.accessToken
                 \/ /\ auth.requests = <<"refresh">>
                    /\ auth.result = server.issued
              /\ wire'[Len(wire')].pageToken =
                     IF wire = <<>> THEN 0 ELSE wire[Len(wire)].nextPageToken
       /\ (WalkEnds /\ walk'.error = "none") =>
              /\ wire # <<>>
              /\ wire[Len(wire)].nextPageToken = 0
              /\ \A k \in 1..(Len(wire) - 1) : wire[k].nextPageToken # 0
              /\ \A k \in 1..Len(wire) :
                     /\ wire[k].status = 200
                     /\ wire[k].endpoint = EndpointOf(walk.kind)
                     /\ wire[k].id = walk.playlistId
              /\ walk'.result = PagesUpTo(walk.kind, wire, Len(wire))
       /\ (walk.pc = "running" /\ api.pc = "done" /\ api'.pc = "awaitToken") =>
              wire[Len(wire)].nextPageToken # 0]_vars

\* A walk of two non-empty pages returned both, the second page fetched with
\* a token refreshed after the first.
C16_Witness ==
    /\ walk.pc = "done" /\ walk.error = "none"
    /\ walk.kind = "playlistItems"
    /\ Len(wire) = 2
    /\ wire[1].token # wire[2].token
    /\ Len(walk.result) = 2
    /\ walk.result[1].videoId # walk.result[2].videoId

-----------------------------------------------------------------------------
(* C17: when the Data API answers a request with 401, whichever page of the *)
(* walk it is, the three credential keys are removed and apiRequest throws  *)
(* the session-expired error; the walk then ends with that error, returns   *)
(* no list, and sends no further request.                                   *)
C17_UnauthorizedClearsAndFails ==
    [][/\ (api.pc = "awaitResponse" /\ wire'[Len(wire')].status = 401) =>
              /\ store' = EmptyStore
              /\ api'.pc = "done" /\ api'.error = SessionExpired
       /\ (walk.pc = "running" /\ api.pc = "done" /\ api.error = SessionExpired) =>
              /\ wire' = wire
              /\ api' = api
              /\ walk' # walk =>
                     /\ walk'.pc = "done"
                     /\ walk'.error = SessionExpired
                     /\ walk'.result = <<>>]_vars

\* The second page of a walk was answered 401 after a first page with a
\* record: the walk failed, the store is empty.
C17_Witness ==
    /\ walk.pc = "done" /\ walk.error = SessionExpired
    /\ Len(wire) = 2 /\ wire[1].status = 200 /\ wire[2].status = 401
    /\ walk.out # <<>> /\ walk.result = <<>>
    /\ store = EmptyStore
    /\ server.refreshIssued >= 1

\* The last request sent was answered with a failure status other than 401.
FailureStatus(w) == w.status \notin {Pending, Rejected, 200, 401}

-----------------------------------------------------------------------------
(* C18: when the Data API answers a request with a failure status other    *)
(* than 401, apiRequest throws the message of the response body, or "API    *)
(* request failed: <status>" when the body has none, and leaves the stored  *)
(* credentials as they are; the walk ends with that error and sends nothing *)
(* more; no page token is requested twice in one walk.                      *)
C18_FailureSurfacesWithoutRetry ==
    [][/\ (api.pc = "awaitResponse" /\ FailureStatus(wire'[Len(wire')])) =>
              LET w == wire'[Len(wire')]
              IN  /\ store' = store
                  /\ api'.pc = "done"
                  /\ api'.error = IF Truthy(w.message) THEN w.message
                                  ELSE "API request failed: " \o ToString(w.status)
       /\ (walk.pc = "running" /\ api.pc = "done" /\ wire # <<>>
              /\ FailureStatus(wire[Len(wire)])) =>
              /\ wire' = wire
              /\ api' = api
              /\ store' = store
              /\ walk' # walk =>
                     /\ walk'.pc = "done"
                     /\ walk'.error = api.error
                     /\ walk'.result = <<>>
       /\ RequestSent =>
              \A k \in 1..Len(wire) : wire[k].pageToken # wire'[Len(wire')].pageToken]_vars

\* The second page of a walk was answered 500 without a message: the walk
\* failed with the status, the credentials are still stored.
C18_Witness ==
    /\ walk.pc = "done" /\ walk.error = "API request failed: 500"
    /\ Len(wire) = 2 /\ wire[2].status = 500
    /\ walk.out # <<>> /\ walk.result = <<>>
    /\ store.refreshToken # 0 /\ store.accessToken = wire[2].token

-----------------------------------------------------------------------------
(* Vocabulary of the claims about the sync orchestrator. *)

\* A bulk cycle that found the user signed in has returned.
CycleDone == job.op = "syncAll" /\ job.pc = "done" /\ job.signedIn

\* This step ends the sync of one playlist inside a bulk cycle, with an error.
SyncFailsInCycle ==
    /\ job.op = "syncAll"
    /\ job.pc \in {"metadata", "items"}
    /\ job'.pc = "loop"
    /\ job'.outcome.error # "none"

\* The playlist was saved by the running operation (no save is stamped with
\* the current time before the operation starts).
SavedNow(id) == playlists[id].lastSyncedAt = now

\* The places of the monitored playlists whose sync saved the playlist.
Succeeded == {i \in 1..Len(job.monitored) : SavedNow(job.monitored[i])}

NumUnavailable(videos) == Cardinality({k \in DOMAIN videos : Unavailable(videos[k])})

RECURSIVE UnavailableOver(_)
UnavailableOver(places) ==
    IF places = {} THEN 0
    ELSE LET i == CHOOSE i \in places : TRUE
         IN  NumUnavailable(playlists[job.monitored[i]].videos)
                 + UnavailableOver(places \ {i})

-----------------------------------------------------------------------------
(* C19: in a bulk cycle, when the sync of a playlist fails, an entry with   *)
(* the playlist's id and the error message is appended to the error list    *)
(* and the playlists not yet reached stay to be synced; the loop goes on    *)
(* with the next of them, and the cycle returns only after syncPlaylist was *)
(* called for every playlist that was monitored at its start.               *)
C19_FailureRecordedCycleGoesOn ==
    [][/\ SyncFailsInCycle =>
              /\ job'.results.errors =
                     Append(job.results.errors,
                            [playlistId |-> job.playlistId,
                             error |-> job'.outcome.error])
              /\ job'.results.synced = job.results.synced
              /\ job'.queue = job.queue
              /\ job'.attempted = job.attempted
       /\ (job.op = "syncAll" /\ job.pc = "loop" /\ job' # job) =>
              IF job.queue # <<>>
              THEN /\ job'.pc = "metadata"
                   /\ job'.playlistId = Head(job.queue)
                   /\ job'.attempted = Append(job.attempted, Head(job.queue))
                   /\ job'.queue = Tail(job.queue)
              ELSE /\ job'.pc = "done"
                   /\ job'.attempted = job.monitored]_vars

\* Two playlists were monitored; the first failed at the token step, the
\* second was synced all the same.
C19_Witness ==
    /\ CycleDone
    /\ job.monitored = <<"P1", "P2">>
    /\ job.attempted = <<"P1", "P2">>
    /\ job.results.errors =
           <<[playlistId |-> "P1", error |-> "Token expired and refresh failed"]>>
    /\ job.results.synced = 1
    /\ SavedNow("P2")

-----------------------------------------------------------------------------
-----------------------------------------------------------------------------
(* C21: the stored playlists change only in the step that ends a sync whose *)
(* metadata request and every page of whose item walk were answered, after  *)
(* the fetched list was merged into the stored one: that step changes the   *)
(* record of the synced playlist alone, to the merged list stamped with the *)
(* current time.  When a sync ends with an error, the record of its         *)
(* playlist is the one the sync read when it started.                       *)
C21_StoredRecordChangesOnlyOnSuccess ==
    [][/\ playlists' # playlists =>
              /\ job.pc = "items" /\ job'.pc \in {"loop", "done"}
              /\ job'.outcome.error = "none"
              /\ job.metadata # NoPlaylist
              /\ walk.pc = "done" /\ walk.error = "none"
              /\ \A k \in DOMAIN wire : wire[k].status = 200
              /\ \A id \in PlaylistIds \ {job.playlistId} :
                     playlists'[id] = playlists[id]
              /\ playlists'[job.playlistId].videos =
                     mergeVideos(job.playlist.videos, walk.result)
              /\ playlists'[job.playlistId].lastSyncedAt = now
              /\ playlists'[job.playlistId].monitored =
                     (job.playlist.playlistId = Undef \/ job.playlist.monitored)
       /\ job'.pc = "items" => job.pc \in {"metadata", "items"}
       /\ (job.pc \in {"metadata", "items"} /\ job'.pc \in {"loop", "done"}
              /\ job'.outcome.error # "none") =>
              /\ playlists' = playlists
              /\ playlists[job.playlistId] = job.playlist]_vars

\* The sync of a stored playlist failed at the second page of its items: the
\* stored record is the one read at the start.
C21_Witness ==
    /\ job.op = "syncPlaylist" /\ job.pc = "done"
    /\ job.outcome.error = "API request failed: 500"
    /\ Len(wire) = 2 /\ wire[2].status = 500
    /\ walk.out # <<>>
    /\ job.playlist.playlistId = job.playlistId
    /\ playlists[job.playlistId] = StoredPlaylist(job.playlistId, TRUE)

-----------------------------------------------------------------------------
(* C22: a bulk cycle started with no refresh token in the store returns at  *)
(* once with synced 0, unavailable 0 and no errors; it calls neither the    *)
(* token manager nor the Data API and leaves the stored playlists as they   *)
(* are, then and afterwards.                                                *)
C22_NotSignedInCycleAborts ==
    [][/\ (job.pc = "idle" /\ job'.op = "syncAll"
              /\ getStoredTokens(store).refreshToken = 0) =>
              /\ job'.pc = "done"
              /\ job'.results = NoResults
              /\ job'.attempted = <<>>
              /\ UNCHANGED <<api, wire, walk, auth, store, playlists>>
       /\ (job.op = "syncAll" /\ ~job.signedIn) =>
              UNCHANGED <<job, api, wire, walk, auth, store, playlists>>]_vars

\* A cycle over a store with two monitored playlists and no credentials has
\* returned.
C22_Witness ==
    /\ job.op = "syncAll" /\ job.pc = "done" /\ ~job.signedIn
    /\ store = EmptyStore
    /\ getMonitoredPlaylists(playlists) = <<"P1", "P2">>
    /\ job.results = NoResults
    /\ wire = <<>> /\ api = ApiIdle

-----------------------------------------------------------------------------
(* SpecAlarm: the events that set the sync alarm up, one after the other:   *)
(* the installation, then browser startups and the messages of the popup    *)
(* that need no network, saveSettings among them, in any order, each run to *)
(* completion before the next begins.                                       *)

\* No event is being handled.
WorkerResting == MsgResting /\ SetupResting

\* The messages that are handled without a call of the token manager or of
\* the fetcher.
LocalMessages ==
    {m \in Messages : m.action \notin {"signIn", "signOut", "fetchPlaylists",
                                       "syncPlaylist", "syncAll"}}

\* The extension is about to be installed or updated: no alarm exists yet,
\* the settings are those of a previous version, if any.
InitAlarm ==
    /\ TokenIdle /\ MergeIdle /\ SyncIdle
    /\ msg = MsgIdle
    /\ setup = SetupIdle
    /\ settings \in SettingsValues
    /\ alarms = <<>>
    /\ saving = NoSaves

NextAlarm ==
    \/ setup.pc = "idle" /\ RuntimeEvent("onInstalled")
    \/ setup.pc = "done" /\ RuntimeEvent("onStartup")
    \/ \E m \in LocalMessages, saved \in BOOLEAN :
           setup.pc = "done" /\ MsgResting /\ HandleMessage(m, saved)
    \/ SetupCreate
    \/ HandleMessageReturn

SpecAlarm == InitAlarm /\ [][NextAlarm]_vars

-----------------------------------------------------------------------------
(* SpecRace: signOut and non-interactive getAuthToken calls that may        *)
(* overlap: each starts whatever the other is waiting for, and the answers  *)
(* of the token endpoint and of the revocation endpoint come in any order.  *)

InitRace ==
    /\ store \in FetchStores
    /\ now = StartTime
    /\ auth = AuthIdle
    /\ so = SignOutIdle
    /\ server = IF store = EmptyStore
                THEN [issued |-> 0, refreshIssued |-> 0, refreshes |-> 0,
                      expiresIn |-> 0, grantedAt |-> 0]
                ELSE [issued |-> 1, refreshIssued |-> 1, refreshes |-> 0,
                      expiresIn |-> 90, grantedAt |-> StartTime]
    /\ authStatus = FALSE
    /\ MergeIdle
    /\ SyncIdle
    /\ WorkerIdle

NextRace ==
    \/ GetAuthToken(FALSE) /\ UNCHANGED <<syncVars, workerVars>>
    \/ \E ok \in BOOLEAN, expiresIn \in {0, 90, 3600} :
           RefreshResponse(ok, FALSE, expiresIn)
    \/ SignOut /\ UNCHANGED workerVars
    \/ \E ok \in BOOLEAN : RevokeResponse(ok)
    \/ Tick

SpecRace == InitRace /\ [][NextRace]_vars

-----------------------------------------------------------------------------
(* SpecHistory: the video list of one playlist over its successive syncs,   *)
(* from the first sync of a playlist the store does not hold yet.  A sync   *)
(* that fails saves nothing and leaves the list as it is.                   *)

\* The fetched list F goes on record: the titles of its available videos.
Snapshot(F) ==
    lastAvailable' =
        [id \in VideoIds |->
            IF \E i \in DOMAIN F : F[i].videoId = id /\ ~isVideoUnavailable(F[i])
            THEN F[CHOOSE i \in DOMAIN F :
                       F[i].videoId = id /\ ~isVideoUnavailable(F[i])].title
            ELSE lastAvailable[id]]

InitHistory ==
    /\ TokenIdle
    /\ MergeIdle
    /\ SyncIdle
    /\ WorkerIdle

NextHistory ==
    \/ \E F \in FreshLists : Merge(F) /\ Snapshot(F)
    \/ \E F \in FreshLists : Resync(F) /\ Snapshot(F)

SpecHistory == InitHistory /\ [][NextHistory]_vars

-----------------------------------------------------------------------------
(* SpecClassify: fetchAllPlaylistItems taking the last page of a playlist,  *)
(* for pages of one or two items over every combination of the fields the   *)
(* classification reads.                                                    *)

WideSnippets ==
    {Snippet("a", t, owner, thumbs) :
        t \in {Undef, "", "Cat Video", "Deleted video", "Private video"},
        owner \in {Undef, "", "X"},
        thumbs \in {"none", "empty", "default", "medium"}}

WidePages ==
    {<<x>> : x \in WideSnippets}
    \cup {<<x, [y EXCEPT !.videoId = "b", !.position = 1]>> :
             x \in WideSnippets, y \in WideSnippets}

\* The walk of playlist P1 is suspended in apiRequest, which has just
\* received the page: the token of a sign-in at StartTime was sent.
InitClassify ==
    /\ store = storeTokens(EmptyStore, 1, 1, 90, StartTime)
    /\ now = StartTime
    /\ auth = [AuthIdle EXCEPT !.pc = "done", !.stored = getStoredTokens(store),
                               !.startedAt = StartTime, !.result = 1]
    /\ so = SignOutIdle
    /\ server = [issued |-> 1, refreshIssued |-> 1, refreshes |-> 0,
                 expiresIn |-> 90, grantedAt |-> StartTime]
    /\ authStatus = FALSE
    /\ MergeIdle
    /\ WorkerIdle
    /\ \E page \in WidePages :
           /\ api = [ApiIdle EXCEPT !.pc = "done", !.endpoint = "/playlistItems",
                                    !.id = "P1",
                                    !.body = [items |-> page, nextPageToken |-> 0]]
           /\ wire = <<[endpoint |-> "/playlistItems", id |-> "P1", pageToken |-> 0,
                        token |-> 1, status |-> 200, message |-> Undef,
                        items |-> page, nextPageToken |-> 0]>>
    /\ walk = [WalkIdle EXCEPT !.pc = "running", !.kind = "playlistItems",
                               !.playlistId = "P1"]
    /\ job = JobIdle
    /\ playlists = [id \in PlaylistIds |-> NoPlaylist]

NextClassify == WalkPage

SpecClassify == InitClassify /\ [][NextClassify]_vars

-----------------------------------------------------------------------------
(* SpecOverlap: an alarm-triggered bulk cycle and one toggleMonitor message *)
(* of the popup, each suspended at its awaits while the other runs.  Here   *)
(* storage.savePlaylist is the three steps of its code: the call, the       *)
(* getPlaylists read of the whole map, and the set of the whole map.        *)

\* savePlaylist is called: its getPlaylists is issued.
SavePlaylistCall(caller, playlist) ==
    saving' = [saving EXCEPT ![caller] = [SaveIdle EXCEPT !.pc = "get",
                                                          !.playlist = playlist]]

\* savePlaylist, lines 64-65: getPlaylists returns the map as it is now and
\* the playlist is put under its id in that copy.
SaveGet(caller) ==
    /\ saving[caller].pc = "get"
    /\ saving' = [saving EXCEPT ![caller].pc = "set",
                                ![caller].map =
                                    savePlaylist(playlists, saving[caller].playlist)]
    /\ UNCHANGED <<msg, setup, settings, alarms>>
    /\ UNCHANGED <<mergeVars, tokenVars, syncVars>>

\* savePlaylist, line 66: chrome.storage.local.set({ playlists }) replaces the
\* whole map (ok = FALSE: it rejects), and the caller resumes: syncPlaylist
\* returns its counts, line 137, the toggleMonitor case returns, line 284.
SaveSet(caller, ok) ==
    /\ saving[caller].pc = "set"
    /\ saving' = [saving EXCEPT ![caller] = SaveIdle]
    /\ playlists' = IF ok THEN saving[caller].map ELSE playlists
    /\ IF caller = "sync"
       THEN /\ job' = IF ok
                      THEN LET playlist == saving[caller].playlist
                           IN  onSyncSuccess(
                                  job,
                                  [unavailableCount |-> countUnavailable(playlist.videos),
                                   videoCount |-> Len(playlist.videos),
                                   error |-> "none"])
                      ELSE onSyncError(job, StorageError)
            /\ UNCHANGED msg
       ELSE /\ msg' = [msg EXCEPT !.pc = "done",
                                  !.response = IF ok THEN Success
                                               ELSE Failure(StorageError)]
            /\ UNCHANGED job
    /\ UNCHANGED <<api, wire, walk>>
    /\ UNCHANGED <<setup, settings, alarms>>
    /\ UNCHANGED <<mergeVars, tokenVars>>

\* syncPlaylist, lines 114-135: fetchAllPlaylistItems returned or threw; the
\* merged playlist is handed to savePlaylist.
SyncItemsSave ==
    /\ job.pc = "items"
    /\ walk.pc = "done"
    /\ IF walk.error # "none"
       THEN /\ job' = onSyncError(job, walk.error)
            /\ UNCHANGED saving
       ELSE LET base == withMetadata(job.playlist, job.playlistId, job.metadata)
                playlist == [base EXCEPT
                               !.videos = mergeVideos(base.videos, walk.result),
                               !.lastSyncedAt = now]
            IN  /\ job' = [job EXCEPT !.pc = "save", !.playlist = playlist]
                /\ SavePlaylistCall("sync", playlist)
    /\ UNCHANGED <<api, wire, walk, playlists>>
    /\ UNCHANGED <<msg, setup, settings, alarms>>
    /\ UNCHANGED <<mergeVars, tokenVars>>

\* handleMessage, lines 267-284, the toggleMonitor case: getPlaylist, then the
\* flag is set on the object it returned (or a new playlist is built from
\* playlistData) and savePlaylist is called; with nothing to save it returns.
ToggleMonitor(m) ==
    /\ msg.pc = "idle"
    /\ m.action = "toggleMonitor"
    /\ LET playlist == playlists[m.playlistId]
       IN  IF playlist.playlistId # Undef
           THEN /\ msg' = Handling(m)
                /\ SavePlaylistCall("message",
                                    [playlist EXCEPT !.monitored = m.monitored])
           ELSE IF m.monitored /\ m.playlistData
           THEN /\ msg' = Handling(m)
                /\ SavePlaylistCall("message",
                                    [NoPlaylist EXCEPT !.playlistId = m.playlistId,
                                                       !.title = "Mix",
                                                       !.itemCount = 1,
                                                       !.monitored = TRUE])
           ELSE /\ msg' = Resolved(m, Success)
                /\ UNCHANGED saving
    /\ UNCHANGED <<setup, settings, alarms>>
    /\ UNCHANGED <<mergeVars, tokenVars, syncVars>>

\* The store of a signed-in user whose access token is valid, the daily alarm
\* set, nothing running.
InitOverlap ==
    /\ StoredStates
    /\ store # EmptyStore
    /\ now = StartTime
    /\ msg = MsgIdle
    /\ setup = SetupIdle
    /\ settings = NoSettings
    /\ alarms = alarmsCreate(<<>>, SYNC_ALARM_NAME,
                             periodInMinutes(getSettings(settings)), DelayInMinutes)
    /\ saving = NoSaves

NextOverlap ==
    \/ AlarmFires
    \/ \E m \in Messages : ToggleMonitor(m)
    \/ SyncAllNext
    \/ SyncMetadata
    \/ SyncItemsSave
    \/ \E caller \in {"sync", "message"} : SaveGet(caller)
    \/ \E caller \in {"sync", "message"}, ok \in BOOLEAN : SaveSet(caller, ok)
    \/ ApiSend
    \/ \E response \in ApiResponses : ApiResponse(response)
    \/ WalkPage

SpecOverlap == InitOverlap /\ [][NextOverlap]_vars

-----------------------------------------------------------------------------
(* Vocabulary of the claims about the message handler. *)

\* The verbs of the message contract; any other action is an unknown verb.
ContractVerbs ==
    {"getAuthStatus", "signIn", "signOut", "fetchPlaylists", "syncPlaylist",
     "syncAll", "getStoredPlaylists", "getMonitoredPlaylists", "toggleMonitor",
     "getSettings", "saveSettings", "unknown"}

\* What the collaborator of the finished handler threw, "none" if nothing.
CollaboratorError ==
    CASE msg.action = "signIn" -> auth.error
      [] msg.action = "fetchPlaylists" -> walk.error
      [] msg.action = "syncPlaylist" -> job.outcome.error
      [] OTHER -> "none"

UniformResponse(r) ==
    /\ "success" \in DOMAIN r
    /\ r.success \in BOOLEAN
    /\ ~r.success => r = [success |-> FALSE, error |-> r.error]

-----------------------------------------------------------------------------
(* C23: for every verb of the contract and for unknown verbs, handleMessage *)
(* resolves, never rejects, to an object with a boolean success field; when *)
(* the token manager, the fetcher or the store failed the object is         *)
(* {success: false, error: message} with the message of the failure.        *)
C23_UniformResponse ==
    (msg.pc = "done" /\ msg.action \in ContractVerbs) =>
        /\ ~msg.rejected
        /\ UniformResponse(msg.response)
        /\ CollaboratorError # "none" =>
               msg.response = [success |-> FALSE, error |-> CollaboratorError]

-----------------------------------------------------------------------------
(* C24: no step of a sync (of one playlist or of a bulk cycle), of           *)
(* toggle-monitor or of a settings operation removes an entry from the       *)
(* playlist store: an identifier that is a key of the map stays a key, also  *)
(* when the remote service answers that the playlist is not found.           *)
C24_NoEntryRemoved ==
    [][\A id \in PlaylistIds :
          playlists[id].playlistId # Undef => playlists'[id].playlistId = id]_vars

NotFoundError(id) == "Playlist " \o id \o " not found"

\* A stored playlist the remote no longer knows was synced, and a
\* toggle-monitor turned monitoring of a stored playlist off.
C24_Witness ==
    \/ /\ msg.pc = "done" /\ msg.action = "syncPlaylist"
       /\ msg.response = Failure(NotFoundError(msg.playlistId))
       /\ playlists[msg.playlistId].playlistId = msg.playlistId
    \/ /\ msg.pc = "done" /\ msg.action = "syncAll"
       /\ \E i \in DOMAIN job.results.errors :
              job.results.errors[i].error = NotFoundError(job.results.errors[i].playlistId)
       /\ \A id \in PlaylistIds : playlists[id].playlistId = id

-----------------------------------------------------------------------------
\* The step on which a getAuthToken call returns the token of a refresh.
RefreshSucceeds ==
    auth.pc = "awaitRefresh" /\ auth'.pc = "done" /\ auth'.error = "none"

\* C25: when the refresh-token exchange succeeds and the response carries a
\* new (rotated) refresh token, the refreshToken stored once getAuthToken has
\* returned is that new refresh token.
C25_RotatedRefreshTokenStored ==
    [][(RefreshSucceeds /\ server'.refreshIssued # server.refreshIssued)
          => getStoredTokens(store').refreshToken = server'.refreshIssued]_vars

-----------------------------------------------------------------------------
\* The step on which a getAuthToken call returns the stored access token
\* without having sent a request.
CachedReturn ==
    /\ AuthCallStarts
    /\ auth'.pc = "done" /\ auth'.error = "none" /\ auth'.requests = <<>>

\* C26: whenever getAuthToken returns the stored access token without a
\* network call, that token is the one the server granted last, the server
\* declared a lifetime for it, and the clock is at least 60 seconds before
\* the instant of the grant plus that lifetime; a token stored from a
\* response that omitted the lifetime is therefore never returned from the
\* store.
C26_CachedTokenOutsideMargin ==
    [][CachedReturn =>
          /\ auth'.result = server.issued
          /\ server.expiresIn # 0
          /\ now + ExpiryBuffer <= server.grantedAt + server.expiresIn * 1000]_vars

\* A token obtained by a refresh was returned from the store by a later call.
C26_Witness ==
    /\ auth.pc = "done" /\ auth.error = "none" /\ auth.requests = <<>>
    /\ auth.result = server.issued
    /\ server.refreshes >= 1
    /\ auth.startedAt > server.grantedAt

-----------------------------------------------------------------------------
\* The step on which the refresh request of an interactive call fails.
RefreshFailsInteractive ==
    auth.pc = "awaitRefresh" /\ auth.interactive /\ auth' # auth /\ server' = server

\* The step on which the code exchange of a call that fell through from a
\* failed refresh succeeds.
ExchangeSucceedsAfterRefresh ==
    /\ auth.pc = "awaitExchange" /\ auth.requests = <<"refresh", "exchange">>
    /\ server'.issued # server.issued

\* C27: getAuthToken(true) whose refresh request fails does not fail there
\* but goes on to the interactive flow; when that flow succeeds the new access
\* token is returned and the store holds it together with a refresh token
\* (the one of the response, if it carries one) and the expiry of the new
\* token.  A call gets to the refresh only from the failed check of the
\* stored token, and to the interactive flow only from that check without a
\* refresh token or from the failed refresh.
C27_RefreshFailureFallsThrough ==
    [][/\ RefreshFailsInteractive =>
              /\ auth'.pc = "awaitAuthFlow" /\ auth'.error = "none"
              /\ store' = store
       /\ ExchangeSucceedsAfterRefresh =>
              /\ auth'.pc = "done" /\ auth'.error = "none"
              /\ auth'.result = server'.issued
              /\ store'.accessToken = server'.issued
              /\ store'.refreshToken # 0
              /\ server'.refreshIssued # server.refreshIssued =>
                     store'.refreshToken = server'.refreshIssued
              /\ store'.tokenExpiry =
                     now' + (server'.expiresIn * 1000) - ExpiryBuffer
       /\ (auth'.pc = "awaitRefresh" /\ auth' # auth) =>
              /\ AuthCallStarts
              /\ ~TokenValid(getStoredTokens(store), now)
              /\ store.refreshToken # 0
       /\ (auth'.pc = "awaitAuthFlow" /\ auth' # auth) =>
              /\ auth'.interactive
              /\ \/ /\ AuthCallStarts
                    /\ ~TokenValid(getStoredTokens(store), now)
                    /\ store.refreshToken = 0
                 \/ auth.pc = "awaitRefresh"]_vars

-----------------------------------------------------------------------------
\* C28: when the token endpoint rejects the refresh request of a
\* getAuthToken(false) call, the stored credential is destroyed: once the
\* call has failed none of accessToken, refreshToken and tokenExpiry is
\* stored, and isAuthenticated answers false.
C28_RejectedRefreshDestroysCredential ==
    [][( /\ auth.pc = "awaitRefresh"
         /\ ~auth.interactive
         /\ auth' # auth
         /\ server'.issued = server.issued )
       => ( /\ auth'.pc = "done" /\ auth'.error # "none"
            /\ store' = EmptyStore
            /\ getStoredTokens(store').refreshToken = 0 )]_vars

-----------------------------------------------------------------------------
\* The playlists of the cycle that are settled: saved, or in the error list.
Settled(j) == j.results.synced + Len(j.results.errors)

\* This step calls syncPlaylist for the next playlist of the cycle.
NextPlaylistStarts == job'.op = "syncAll" /\ Len(job'.attempted) = Len(job.attempted) + 1

(* C29: in a bulk cycle syncPlaylist is called for a playlist only when     *)
(* every playlist it was called for before is settled, its result saved or  *)
(* its error recorded, so that at most one playlist is in progress; every   *)
(* request sent is for the playlist in progress; and the entries of the     *)
(* error list are in the order in which the playlists were processed.       *)
C29_OnePlaylistAtATime ==
    [][ job'.op = "syncAll" =>
          /\ NextPlaylistStarts =>
                /\ job.pc = "loop"
                /\ Settled(job) = Len(job.attempted)
                /\ wire' = <<>>
                /\ \A i \in DOMAIN job.attempted :
                       \/ SavedNow(job.attempted[i])
                       \/ \E k \in DOMAIN job.results.errors :
                              job.results.errors[k].playlistId = job.attempted[i]
          /\ Len(job'.attempted) - Settled(job')
                 = IF job'.pc \in {"metadata", "items"} THEN 1 ELSE 0
          /\ RequestSent =>
                /\ job.pc \in {"metadata", "items"}
                /\ wire'[Len(wire')].id = job.playlistId
                /\ job.playlistId = job.attempted[Len(job.attempted)]
          /\ \A k, l \in DOMAIN job'.results.errors :
                 k < l => LET j == job'
                          IN  \E m, n \in DOMAIN j.attempted :
                                  /\ m < n
                                  /\ j.attempted[m] = j.results.errors[k].playlistId
                                  /\ j.attempted[n] = j.results.errors[l].playlistId ]_vars

\* Both playlists of a cycle failed, the second after the first was recorded.
C29_Witness ==
    /\ CycleDone
    /\ job.attempted = <<"P1", "P2">>
    /\ Len(job.results.errors) = 2
    /\ job.results.errors[1].playlistId = "P1"
    /\ job.results.errors[2].playlistId = "P2"

-----------------------------------------------------------------------------
\* The sync alarms that exist.
SyncAlarms == SelectSeq(alarms, LAMBDA a : a.name = SYNC_ALARM_NAME)

\* The period the stored settings ask for, in minutes.
StoredPeriod ==
    IF settings.syncFrequency = "weekly" THEN 10080 ELSE 1440

(* C30: whenever the installation has run and no startup or saveSettings    *)
(* event is being handled, exactly one sync alarm exists, its initial delay *)
(* is 1 minute and its period is 10080 minutes when the stored              *)
(* syncFrequency is weekly and 1440 minutes when it is daily, absent or not *)
(* recognised.                                                              *)
C30_OneAlarmMatchingSettings ==
    (setup.pc = "done" /\ MsgResting) =>
        /\ Len(SyncAlarms) = 1
        /\ SyncAlarms[1].delayInMinutes = 1
        /\ SyncAlarms[1].periodInMinutes = StoredPeriod

\* A saveSettings message changed the stored frequency from weekly to a
\* value that is not recognised, and was answered.
C30_Witness ==
    /\ msg.pc = "done" /\ msg.action = "saveSettings" /\ msg.response = Success
    /\ setup = [pc |-> "done", caller |-> "saveSettings", periodInMinutes |-> 1440]
    /\ settings.syncFrequency = "hourly"
    /\ Len(SyncAlarms) = 1
    /\ SyncAlarms[1].periodInMinutes = 1440

-----------------------------------------------------------------------------
\* The step on which fetchAllPlaylistItems pushes the records of a page.
ItemsPushed ==
    /\ walk.pc = "running" /\ walk.kind = "playlistItems"
    /\ api.pc = "done" /\ api.error = "none"
    /\ walk' # walk

(* C31: the record pushed for an item has isUnavailable true exactly when   *)
(* the item's title is 'Deleted video' or 'Private video', or its owner     *)
(* channel title is missing or empty, or its snippet has no thumbnails      *)
(* object, whatever the other items of the page are; and for every pushed   *)
(* record isVideoUnavailable(record) is the record's isUnavailable flag.    *)
C31_ClassifiedFromOwnRecord ==
    [][ItemsPushed =>
          /\ Len(walk'.out) = Len(walk.out) + Len(api.body.items)
          /\ \A i \in DOMAIN api.body.items :
                 LET item == api.body.items[i]
                     record == walk'.out[Len(walk.out) + i]
                 IN  /\ record.videoId = item.videoId
                     /\ record.isUnavailable <=>
                            \/ item.title \in {"Deleted video", "Private video"}
                            \/ item.videoOwnerChannelTitle \in {Undef, ""}
                            \/ item.thumbnails = "none"
                     /\ isVideoUnavailable(record) = record.isUnavailable]_vars

\* A page of two items was pushed: one with an ordinary title and owner but
\* no thumbnails object, flagged; one with an empty thumbnails object, not.
C31_Witness ==
    /\ walk.pc = "done" /\ walk.error = "none" /\ Len(walk.result) = 2
    /\ api.body.items[1].title = "Cat Video"
    /\ api.body.items[1].videoOwnerChannelTitle = "X"
    /\ api.body.items[1].thumbnails = "none"
    /\ walk.result[1].isUnavailable
    /\ api.body.items[2].title = "Cat Video"
    /\ api.body.items[2].videoOwnerChannelTitle = "X"
    /\ api.body.items[2].thumbnails = "empty"
    /\ ~walk.result[2].isUnavailable

-----------------------------------------------------------------------------
\* A sync, of one playlist or a bulk cycle, is running / has returned.
SyncRunning == job.pc \notin {"idle", "done"}
SyncReturned == job.pc = "done"

(* C32: a sync that has started, of one playlist or a bulk cycle, returns,  *)
(* with its result or with its failure, when every request is answered and  *)
(* every listing ends with a page without continuation token; and a bulk    *)
(* cycle that found the user signed in has called syncPlaylist once for     *)
(* each playlist monitored at its start, and for no other, when it returns. *)
C32_EverySyncReturns ==
    /\ SyncRunning ~> SyncReturned
    /\ [](CycleDone => job.attempted = job.monitored)
    /\ [](SyncReturned /\ job.op = "syncPlaylist" => job.attempted = <<job.playlistId>>)

\* A cycle over two playlists returned; the listing of the second took as
\* many pages as a listing may have.
C32_Witness ==
    /\ CycleDone
    /\ Len(job.monitored) = 2
    /\ Len(job.attempted) = 2
    /\ job.results.synced = 2
    /\ walk.pc = "done" /\ Len(wire) = MaxPages

-----------------------------------------------------------------------------
(* C33: from an empty store and after any number of syncs, every stored     *)
(* video that carries one of originalTitle, originalChannelTitle and        *)
(* originalThumbnailUrl is unavailable: no available stored video carries a *)
(* preserved-original field.                                                *)
C33_OriginalsOnlyOnUnavailable ==
    /\ \A i \in DOMAIN merged : ~NoOriginals(merged[i]) => Unavailable(merged[i])
    /\ \A i \in DOMAIN previous : ~NoOriginals(previous[i]) => Unavailable(previous[i])

\* The third sync found available again a video whose originals the second
\* had preserved: the stored record carries none.
C33_Witness ==
    /\ nMerges = 3
    /\ \E i \in DOMAIN previous, k \in DOMAIN merged :
           /\ previous[i].videoId = merged[k].videoId
           /\ previous[i].originalTitle = "Cat Video"
           /\ ~Unavailable(merged[k])
           /\ NoOriginals(merged[k])

-----------------------------------------------------------------------------
(* C34: from an empty store and after any number of syncs, a stored video   *)
(* that has an originalTitle has the title the video had in the latest      *)
(* fetched list in which it was available; that title is neither 'Deleted   *)
(* video' nor 'Private video'.                                              *)
C34_OriginalTitleFromLastAvailable ==
    \A i \in DOMAIN merged :
        merged[i].originalTitle # Undef =>
            /\ merged[i].originalTitle = lastAvailable[merged[i].videoId]
            /\ merged[i].originalTitle \notin {"Deleted video", "Private video"}

\* A title preserved by the second sync was carried by the third.
C34_Witness ==
    /\ nMerges = 3
    /\ \E i \in DOMAIN previous, k \in DOMAIN merged :
           /\ previous[i].videoId = merged[k].videoId
           /\ previous[i].originalTitle = "Cat Video"
           /\ merged[k].originalTitle = "Cat Video"
           /\ lastAvailable[merged[k].videoId] = "Cat Video"

-----------------------------------------------------------------------------
\* The stored list before the last sync held the video as unavailable with
\* preserved originals, and the list that sync fetched did not have it.
DroppedWithOriginals(id) ==
    /\ nMerges >= 1
    /\ \E r \in Priors(previous, id) : Unavailable(r) /\ ~NoOriginals(r)
    /\ id \notin IdsOf(fresh)

\* This step is a sync whose fetched list has the video, unavailable.
RelistedUnavailable(id) ==
    /\ nMerges' = nMerges + 1
    /\ id \in IdsOf(fresh')
    /\ \A r \in Priors(fresh', id) : Unavailable(r)

(* C35: when a video stored as unavailable with preserved originals is      *)
(* missing from the list one sync fetches, that sync drops it from the      *)
(* stored list; when a later sync finds it listed again, still unavailable, *)
(* the record it stores has none of the original* fields.                   *)
C35_OriginalsLostAfterAbsence ==
    [][\A id \in VideoIds :
          /\ DroppedWithOriginals(id) => id \notin IdsOf(merged)
          /\ (nMerges >= 1 /\ id \notin IdsOf(merged) /\ RelistedUnavailable(id)) =>
                 /\ id \in IdsOf(merged')
                 /\ \A r \in Priors(merged', id) : Unavailable(r) /\ NoOriginals(r)]_vars

\* The sync before the last left the store without the video; the last found
\* it listed, unavailable, and stored it without originals.
C35_Witness ==
    /\ nMerges = 2
    /\ "a" \notin IdsOf(previous)
    /\ "a" \in IdsOf(fresh)
    /\ "a" \in IdsOf(merged)
    /\ \A r \in Priors(merged, "a") : Unavailable(r) /\ NoOriginals(r)

-----------------------------------------------------------------------------
(* C38: once a signOut has finished and no getAuthToken call is waiting,    *)
(* the store holds none of accessToken, refreshToken and tokenExpiry, also  *)
(* when the signOut ran while a refresh request was waiting for its answer; *)
(* a getAuthToken(false) call made then fails with 'No valid token'.        *)
C38_SignOutIsFinal ==
    [][(so.pc = "done" /\ AuthResting) =>
          /\ store = EmptyStore
          /\ AuthCallStarts =>
                 auth'.pc = "done" /\ auth'.error = "No valid token"]_vars


\* The set of a savePlaylist call of this caller is the step.
SaveLands(caller) == saving[caller].pc = "set" /\ saving'[caller].pc = "idle"

\* C36: a sync never changes the monitored flag of the playlist it syncs: the
\* step in which the save of syncPlaylist reaches the store leaves the flag
\* of a playlist the store already holds as it was, whatever toggleMonitor
\* stored while the sync was in flight.
C36_SyncKeepsMonitoredFlag ==
    [][SaveLands("sync") /\ playlists[job.playlistId].playlistId # Undef =>
          playlists'[job.playlistId].monitored =
              playlists[job.playlistId].monitored]_vars

\* C37: no update is lost between operations that save different playlists:
\* the step in which a save reaches the store changes no stored record but
\* the one of the playlist that was saved.
C37_NoLostUpdate ==
    [][\A caller \in {"sync", "message"} :
          SaveLands(caller) =>
              \A id \in PlaylistIds \ {saving[caller].playlist.playlistId} :
                  playlists'[id] = playlists[id]]_vars


\* The entries of the error list of the cycle that report a 401.
Unauthorized == {i \in DOMAIN job.results.errors :
                    job.results.errors[i].error = SessionExpired}

\* The playlists of the cycle whose sync has ended with a recorded error.
Recorded == {job.results.errors[i].playlistId : i \in DOMAIN job.results.errors}

(* C39: in a bulk cycle, once the error list holds the 401 of a playlist,   *)
(* the store holds no credential, so isAuthenticated() is false; every      *)
(* playlist the cycle went on to is in the error list with the failure of   *)
(* getAuthToken, or is in progress with no request sent and none to come;   *)
(* no playlist is saved any more; and the cycle that has returned was       *)
(* called for every monitored playlist.                                     *)
C39_UnauthorizedFailsTheRest ==
    (job.op = "syncAll" /\ Unauthorized # {}) =>
        LET first == CHOOSE i \in Unauthorized : \A j \in Unauthorized : i <= j
            errors == job.results.errors
            at == CHOOSE p \in DOMAIN job.attempted :
                      job.attempted[p] = errors[first].playlistId
        IN  /\ store = EmptyStore
            /\ getStoredTokens(store).refreshToken = 0
            /\ \A j \in DOMAIN errors :
                   j > first => errors[j].error = "No valid token"
            /\ \A p \in DOMAIN job.attempted :
                   p > at =>
                       \/ job.attempted[p] \in Recorded
                       \/ /\ p = Len(job.attempted)
                          /\ job.pc = "metadata"
                          /\ wire = <<>>
                          /\ api.pc = "done" => api.error = "No valid token"
            /\ job.results.synced = at - first
            /\ job.pc = "done" =>
                   /\ job.attempted = job.monitored
                   /\ Len(errors) = first + Len(job.monitored) - at

\* C39 witness: a cycle over two playlists has returned; the first got a 401,
\* the second failed at getAuthToken with no request sent.
C39_Witness ==
    /\ CycleDone
    /\ job.attempted = <<"P1", "P2">>
    /\ job.results.errors =
           <<[playlistId |-> "P1", error |-> SessionExpired],
             [playlistId |-> "P2", error |-> "No valid token"]>>
    /\ job.results.synced = 0
    /\ wire = <<>>
    /\ store = EmptyStore


\* This step ends a getAuthToken(true) call in the callback of the
\* interactive flow, before any code exchange.
FlowEnds == auth.interactive /\ auth.pc = "awaitAuthFlow" /\ auth'.pc = "done"

\* This step ends a getAuthToken(true) call at the code exchange, the token
\* endpoint granting nothing.
ExchangeFails ==
    /\ auth.interactive /\ auth.pc = "awaitExchange" /\ auth'.pc = "done"
    /\ server'.issued = server.issued

(* C40: a getAuthToken(true) call whose interactive flow is dismissed or    *)
(* gives no redirect URL or no code, or whose code exchange is rejected,    *)
(* fails, and accessToken, refreshToken and tokenExpiry in the store are    *)
(* then what the call read when it started.                                 *)
C40_FailedSignInChangesNothing ==
    [][/\ FlowEnds =>
              /\ auth'.error \in {"The user did not approve access.",
                                  "No redirect URL received",
                                  "No authorization code received"}
              /\ auth'.result = 0
              /\ getStoredTokens(store') = auth.stored
       /\ ExchangeFails =>
              /\ auth'.error \in {"Token exchange failed", "Failed to fetch"}
              /\ auth'.result = 0
              /\ getStoredTokens(store') = auth.stored]_vars

\* C40 witness: a signed-in user's getAuthToken(true) call failed at the code
\* exchange, after its refresh had failed, and the store is as it was.
C40_Witness ==
    /\ auth.pc = "done" /\ auth.interactive
    /\ auth.error = "Token exchange failed"
    /\ auth.requests = <<"refresh", "exchange">>
    /\ auth.stored.accessToken # 0 /\ auth.stored.refreshToken # 0
    /\ getStoredTokens(store) = auth.stored

====
